---- MODULE Spec2Model ----
(***************************************************************************)
(* Company name & contact resolution engine of the culinary scraper.       *)
(*                                                                         *)
(* The repository ships two script variants:                               *)
(*   part_001  the Hunter based variant: enrichment client                 *)
(*             (getCompanyInfoWithSource), cache layer (loadCache,         *)
(*             saveCache, clearCache) and orchestrator (getCompanyInfo);   *)
(*   part_002  the SearchAPI based variant: orchestrator with primary and  *)
(*             parent strategies, contact collection switched off.         *)
(* JavaScript strings are modelled as TLA+ strings, character by           *)
(* character; arrays are sequences; a Map / plain object is an ordered     *)
(* sequence of [key, value] records with distinct keys (insertion order).  *)
(***************************************************************************)
EXTENDS Integers, Sequences, FiniteSets, TLC

(***************************************************************************)
(* String primitives of JavaScript, on TLA+ strings                       *)
(***************************************************************************)
UPPER == "ABCDEFGHIJKLMNOPQRSTUVWXYZ"
LOWER == "abcdefghijklmnopqrstuvwxyz"
DIGITS == "0123456789"

CharAt(s, i) == IF i >= 1 /\ i <= Len(s) THEN SubSeq(s, i, i) ELSE ""

Includes(s, t) == \E i \in 1..(Len(s) - Len(t) + 1) : SubSeq(s, i, i + Len(t) - 1) = t

StartsWith(s, t) == Len(t) <= Len(s) /\ SubSeq(s, 1, Len(t)) = t

EndsWith(s, t) == Len(t) <= Len(s) /\ SubSeq(s, Len(s) - Len(t) + 1, Len(s)) = t

\* 1-based position of the first occurrence of t in s, 0 when there is none
IndexOf(s, t) ==
    IF Includes(s, t)
    THEN CHOOSE i \in 1..(Len(s) - Len(t) + 1) :
            /\ SubSeq(s, i, i + Len(t) - 1) = t
            /\ \A j \in 1..(i - 1) : SubSeq(s, j, j + Len(t) - 1) # t
    ELSE 0

IsUpper(c) == Len(c) = 1 /\ Includes(UPPER, c)
IsLower(c) == Len(c) = 1 /\ Includes(LOWER, c)
IsDigit(c) == Len(c) = 1 /\ Includes(DIGITS, c)
\* \w of a JavaScript regular expression
IsWordChar(c) == IsUpper(c) \/ IsLower(c) \/ IsDigit(c) \/ c = "_"
\* \s of a JavaScript regular expression (the blanks that occur in the inputs)
IsSpace(c) == c = " " \/ c = "\t" \/ c = "\n"

LowerChar(c) == IF IsUpper(c) THEN CharAt(LOWER, IndexOf(UPPER, c)) ELSE c

RECURSIVE ToLowerCase(_)
ToLowerCase(s) ==
    IF Len(s) = 0 THEN ""
    ELSE LowerChar(SubSeq(s, 1, 1)) \o ToLowerCase(SubSeq(s, 2, Len(s)))

UpperChar(c) == IF IsLower(c) THEN CharAt(UPPER, IndexOf(LOWER, c)) ELSE c

RECURSIVE ToUpperCase(_)
ToUpperCase(s) ==
    IF Len(s) = 0 THEN ""
    ELSE UpperChar(SubSeq(s, 1, 1)) \o ToUpperCase(SubSeq(s, 2, Len(s)))

\* s.replace(/\s+/g, '')
RECURSIVE RemoveWhitespace(_)
RemoveWhitespace(s) ==
    IF Len(s) = 0 THEN ""
    ELSE (IF IsSpace(SubSeq(s, 1, 1)) THEN "" ELSE SubSeq(s, 1, 1))
            \o RemoveWhitespace(SubSeq(s, 2, Len(s)))

RECURSIVE TrimStart(_)
TrimStart(s) ==
    IF Len(s) > 0 /\ IsSpace(SubSeq(s, 1, 1)) THEN TrimStart(SubSeq(s, 2, Len(s))) ELSE s

RECURSIVE TrimEnd(_)
TrimEnd(s) ==
    IF Len(s) > 0 /\ IsSpace(SubSeq(s, Len(s), Len(s)))
    THEN TrimEnd(SubSeq(s, 1, Len(s) - 1)) ELSE s

Trim(s) == TrimEnd(TrimStart(s))

\* s.split(' ') for a string without leading, trailing or doubled blanks
RECURSIVE SplitOnSpace(_)
SplitOnSpace(s) ==
    IF ~Includes(s, " ") THEN <<s>>
    ELSE <<SubSeq(s, 1, IndexOf(s, " ") - 1)>>
            \o SplitOnSpace(SubSeq(s, IndexOf(s, " ") + 1, Len(s)))

\* the elements of a sequence, and membership in an array (Array.includes)
Range(seq) == {seq[i] : i \in 1..Len(seq)}

\* Array.indexOf, 0-based, -1 when absent
ArrayIndexOf(seq, x) ==
    IF \E i \in 1..Len(seq) : seq[i] = x
    THEN (CHOOSE i \in 1..Len(seq) : seq[i] = x /\ \A j \in 1..(i - 1) : seq[j] # x) - 1
    ELSE -1


(***************************************************************************)
(* Title Priority Scorer: TITLE_PRIORITY and getTitlePriority              *)
(* (identical in part_001 and part_002)                                    *)
(***************************************************************************)
TITLE_PRIORITY ==
    << "chief people officer", "chief human resources officer", "chro", "head of hr",
       "head of human resources", "head of people", "head of talent", "hr director",
       "human resources director", "people director", "talent director",
       "talent acquisition director", "vp of hr", "vp of human resources", "vp of people",
       "vp of talent", "vp of talent acquisition", "people operations", "people ops",
       "talent operations", "hr manager", "human resources manager", "people manager",
       "talent manager", "talent acquisition manager", "hr specialist",
       "human resources specialist", "people specialist", "talent specialist",
       "recruiter", "talent recruiter", "technical recruiter", "executive recruiter",
       "hr", "human resources", "people", "talent", "talent acquisition", "ceo",
       "chief executive officer", "president", "coo", "chief operating officer",
       "chief people officer", "chief talent officer", "chief", "regional director",
       "area director", "district director", "regional manager", "area manager",
       "district manager", "regional", "area", "district", "director of operations",
       "operations director", "director of hr", "director of human resources",
       "director of people", "director of recruiting", "recruiting director", "director",
       "vice president", "vp", "general manager", "gm", "manager", "executive", "founder",
       "owner", "partner", "recruiting", "hiring", "employment", "personnel" >>

roleTypes ==
    << [key |-> "hr", alt |-> "human resources"],
       [key |-> "talent", alt |-> "talent acquisition"],
       [key |-> "people", alt |-> "people operations"] >>

levelTypes ==
    << [key |-> "manager", alt |-> "manager of"],
       [key |-> "director", alt |-> "director of"],
       [key |-> "vp", alt |-> "vice president"],
       [key |-> "head", alt |-> "head of"],
       [key |-> "chief", alt |-> "chief"] >>

\* the index of the standard form of a role + level pair in TITLE_PRIORITY, -1 if none
StandardIndex(role, level) ==
    IF ArrayIndexOf(TITLE_PRIORITY, role.key \o " " \o level.key) # -1
    THEN ArrayIndexOf(TITLE_PRIORITY, role.key \o " " \o level.key)
    ELSE ArrayIndexOf(TITLE_PRIORITY, role.alt \o " " \o level.key)

\* patternA .. patternH of the word order check
RoleLevelMatches(lowerTitle, role, level) ==
    \/ Includes(lowerTitle, role.key \o " " \o level.key)
    \/ Includes(lowerTitle, level.key \o " of " \o role.key)
    \/ Includes(lowerTitle, level.key \o ", " \o role.key)
    \/ Includes(lowerTitle, role.alt \o " " \o level.key)
    \/ Includes(lowerTitle, level.key \o " of " \o role.alt)
    \/ Includes(lowerTitle, level.key \o ", " \o role.alt)
    \/ Includes(lowerTitle, level.alt \o " " \o role.key)
    \/ Includes(lowerTitle, level.alt \o " " \o role.alt)

\* the role x level loop, in iteration order; n counts the pairs already tried
RECURSIVE RoleLevelScan(_, _)
RoleLevelScan(lowerTitle, n) ==
    IF n >= Len(roleTypes) * Len(levelTypes) THEN -1
    ELSE LET role == roleTypes[(n \div Len(levelTypes)) + 1]
             level == levelTypes[(n % Len(levelTypes)) + 1]
         IN IF StandardIndex(role, level) # -1 /\ RoleLevelMatches(lowerTitle, role, level)
            THEN StandardIndex(role, level)
            ELSE RoleLevelScan(lowerTitle, n + 1)

\* the special handling of VP titles: first "vp of X" term whose X is in the title
VpScan(lowerTitle) ==
    LET hit(i) == /\ StartsWith(TITLE_PRIORITY[i], "vp of ")
                  /\ Includes(lowerTitle, SubSeq(TITLE_PRIORITY[i], 7, Len(TITLE_PRIORITY[i])))
    IN IF /\ (Includes(lowerTitle, "vp") \/ Includes(lowerTitle, "vice president"))
          /\ (\/ Includes(lowerTitle, "hr") \/ Includes(lowerTitle, "human resources")
              \/ Includes(lowerTitle, "people") \/ Includes(lowerTitle, "talent"))
          /\ \E i \in 1..Len(TITLE_PRIORITY) : hit(i)
       THEN (CHOOSE i \in 1..Len(TITLE_PRIORITY) : hit(i) /\ \A j \in 1..(i - 1) : ~hit(j)) - 1
       ELSE -1

\* /(^|\s)chief($|\s|,)/.test(lowerTitle)
ChiefRegex(lowerTitle) ==
    \E i \in 1..(Len(lowerTitle) - 4) :
        /\ SubSeq(lowerTitle, i, i + 4) = "chief"
        /\ (i = 1 \/ IsSpace(CharAt(lowerTitle, i - 1)))
        /\ (i + 4 = Len(lowerTitle) \/ IsSpace(CharAt(lowerTitle, i + 5))
                \/ CharAt(lowerTitle, i + 5) = ",")

isRealChief(lowerTitle) ==
    \/ ChiefRegex(lowerTitle)
    \/ (Includes(lowerTitle, "chief ") /\ ~Includes(lowerTitle, "chief cook"))

\* one iteration of the substring loop: does the priority term at index i (1-based) match
SubstringHit(lowerTitle, i) ==
    LET priorityTerm == TITLE_PRIORITY[i]
    IN \/ /\ Includes(priorityTerm, " ")
          /\ \A w \in Range(SplitOnSpace(priorityTerm)) : Includes(lowerTitle, w)
       \/ IF priorityTerm = "chief" /\ Includes(lowerTitle, "chief")
          THEN isRealChief(lowerTitle)
          ELSE Includes(lowerTitle, priorityTerm)

SubstringScan(lowerTitle) ==
    IF \E i \in 1..Len(TITLE_PRIORITY) : SubstringHit(lowerTitle, i)
    THEN (CHOOSE i \in 1..Len(TITLE_PRIORITY) :
            SubstringHit(lowerTitle, i) /\ \A j \in 1..(i - 1) : ~SubstringHit(lowerTitle, j)) - 1
    ELSE Len(TITLE_PRIORITY) + 1

\* getTitlePriority(title); a missing title is the empty string
getTitlePriority(title) ==
    IF title = "" THEN Len(TITLE_PRIORITY) + 1
    ELSE LET lowerTitle == ToLowerCase(title)
         IN IF ArrayIndexOf(TITLE_PRIORITY, lowerTitle) # -1
            THEN ArrayIndexOf(TITLE_PRIORITY, lowerTitle)
            ELSE IF RoleLevelScan(lowerTitle, 0) # -1 THEN RoleLevelScan(lowerTitle, 0)
            ELSE IF VpScan(lowerTitle) # -1 THEN VpScan(lowerTitle)
            ELSE SubstringScan(lowerTitle)


(***************************************************************************)
(* Configuration and helpers of part_001                                   *)
(***************************************************************************)
CACHE_MAX_AGE_DAYS == 30

\* EXCLUDED_COMPANIES of part_001, after .map(name => name.toLowerCase())
EXCLUDED_COMPANIES ==
    << "alliance personnel", "august point advisors", "bon appetit",
       "capital restaurant associates", "chartwells", "compass", "core recruitment",
       "ehs recruiting", "empowered hospitality", "eurest", "goodwin recruiting",
       "hmg plus - new york", "lsg sky chefs", "major food group", "measured hr",
       "one haus", "patrice & associates", "persone nyc", "playbook advisors",
       "restaurant associates", "source one hospitality", "starr", "ten five hospitality",
       "the goodkind group", "tuttle hospitality", "willow tree recruiting",
       "washington", "washington dc", "washington d.c.", "washington d c" >>

\* EXCLUDED_COMPANIES of part_002, after .map(name => name.toLowerCase()): the list of
\* part_001 without "STARR"
EXCLUDED_COMPANIES002 == SelectSeq(EXCLUDED_COMPANIES, LAMBDA name : name # "starr")

PARTIAL_EXCLUSIONS == << "whole foods" >>

FORCE_FRESH_COMPANIES == {"fish cheeks", "fish cheeks noho", "fish cheeks - noho"}

\* the clock counts days; a timestamp is the day it was taken on
isStale(timestamp, clk) == (clk - timestamp) > CACHE_MAX_AGE_DAYS

\* text.replace(/[^\w\s.,&'-]/g, '')
RECURSIVE cleanSpecialCharacters(_)
cleanSpecialCharacters(text) ==
    IF Len(text) = 0 THEN ""
    ELSE LET c == SubSeq(text, 1, 1)
         IN (IF IsWordChar(c) \/ IsSpace(c) \/ c \in {".", ",", "&", "'", "-"} THEN c ELSE "")
                \o cleanSpecialCharacters(SubSeq(text, 2, Len(text)))

\* the words of the first replace of cleanCompanyName, in the order of the alternation
EntitySuffixWords ==
    << "restaurant", "bar", "café", "cafe", "grill", "bistro", "tavern", "kitchen",
       "hospitality", "group", "llc", "inc", "corporation" >>

\* the length of the run of blanks at the start of s
RECURSIVE SpaceRun(_)
SpaceRun(s) ==
    IF Len(s) > 0 /\ IsSpace(SubSeq(s, 1, 1)) THEN 1 + SpaceRun(SubSeq(s, 2, Len(s))) ELSE 0

\* does word w, case-insensitively, start s and end at a \b
WordThenBoundary(s, w) ==
    /\ StartsWith(ToLowerCase(s), w)
    /\ IsWordChar(CharAt(s, Len(w))) # IsWordChar(CharAt(s, Len(w) + 1))

\* s.replace(/\s+(restaurant|bar|...|corporation)\b/gi, '')
RECURSIVE RemoveEntitySuffixes(_)
RemoveEntitySuffixes(s) ==
    IF Len(s) = 0 THEN ""
    ELSE LET n == SpaceRun(s)
             rest == SubSeq(s, n + 1, Len(s))
             hit(i) == WordThenBoundary(rest, EntitySuffixWords[i])
         IN IF n > 0 /\ \E i \in 1..Len(EntitySuffixWords) : hit(i)
            THEN LET w == EntitySuffixWords[CHOOSE i \in 1..Len(EntitySuffixWords) : hit(i)]
                 IN RemoveEntitySuffixes(SubSeq(rest, Len(w) + 1, Len(rest)))
            ELSE SubSeq(s, 1, 1) \o RemoveEntitySuffixes(SubSeq(s, 2, Len(s)))

\* s.replace(/\s+[,-]\s+.*$/, '') on a string without line breaks
RemoveLocationMarker(s) ==
    LET hit(i) == /\ IsSpace(CharAt(s, i))
                  /\ LET n == SpaceRun(SubSeq(s, i, Len(s)))
                     IN /\ CharAt(s, i + n) \in {",", "-"}
                        /\ IsSpace(CharAt(s, i + n + 1))
    IN IF \E i \in 1..Len(s) : hit(i)
       THEN SubSeq(s, 1, (CHOOSE i \in 1..Len(s) : hit(i) /\ \A j \in 1..(i - 1) : ~hit(j)) - 1)
       ELSE s

cleanCompanyName(input) ==
    IF input = "" THEN ""
    ELSE LET cleaned == Trim(RemoveLocationMarker(RemoveEntitySuffixes(input)))
         IN IF cleaned # "" THEN cleaned ELSE input


(***************************************************************************)
(* Contact Scorer of part_001                                              *)
(* A raw contact of the API is a record; an absent field is "" (strings)   *)
(* or -1 (confidence).                                                     *)
(***************************************************************************)
GENERIC_EMAIL_PATTERNS ==
    << "info@", "contact@", "hello@", "admin@", "support@", "office@", "mail@", "inquiry@",
       "general@", "sales@", "help@", "service@", "hr@", "jobs@", "careers@", "team@",
       "marketing@", "press@", "media@", "events@" >>

isGenericEmail(email) ==
    IF email = "" THEN TRUE
    ELSE \E i \in 1..Len(GENERIC_EMAIL_PATTERNS) :
            Includes(ToLowerCase(email), GENERIC_EMAIL_PATTERNS[i])

\* calculateEmailScore, times two: the score subtracts confidence / 2, and twice the
\* score is an integer for every integer confidence
calculateEmailScoreX2(email) ==
    IF email.value = "" THEN 2 * 1000
    ELSE LET title == IF email.position # "" THEN email.position ELSE email.position_raw
         IN IF title # "" /\ Trim(title) # ""
            THEN 2 * getTitlePriority(title)
            ELSE 2 * 500
                 + (IF isGenericEmail(email.value) THEN 2 * 200 ELSE -(2 * 100))
                 + (IF email.first_name # "" \/ email.last_name # "" THEN -(2 * 50) ELSE 2 * 50)
                 + (IF email.confidence >= 0 THEN -email.confidence ELSE 0)
                 + (IF email.type = "personal" THEN -(2 * 75)
                    ELSE IF email.type = "generic" THEN 2 * 25 ELSE 0)

\* Array.prototype.sort with a comparator that subtracts the keys: stable, ascending.
\* keys[i] is the sort key of items[i].
StableSortByKey(items, keys) ==
    LET n == Len(items)
        pos(i) == Len(SelectSeq([j \in 1..n |-> j],
                    LAMBDA j : keys[j] < keys[i] \/ (keys[j] = keys[i] /\ j < i))) + 1
    IN SubSeq([p \in 1..n |-> items[CHOOSE i \in 1..n : pos(i) = p]], 1, n)

\* the contact that processEmails builds from one raw contact with an address
ScoredEmail(email) ==
    LET emailValue == IF email.value # "" THEN email.value ELSE email.email
        position == IF email.position # "" THEN email.position ELSE email.position_raw
    IN [ name |-> IF email.first_name # "" /\ email.last_name # ""
                  THEN Trim(email.first_name \o " " \o email.last_name)
                  ELSE IF email.first_name # "" THEN email.first_name
                  ELSE IF email.last_name # "" THEN email.last_name ELSE "Unknown",
         title |-> IF position # "" THEN position ELSE "N/A",
         email |-> emailValue,
         confidence |-> IF email.confidence >= 0 THEN email.confidence ELSE 0,
         priorityX2 |-> calculateEmailScoreX2(email) ]

\* Array.filter
RECURSIVE FilterWithAddress(_)
FilterWithAddress(emails) ==
    IF emails = << >> THEN << >>
    ELSE (IF Head(emails).value # "" \/ Head(emails).email # "" THEN <<Head(emails)>> ELSE << >>)
            \o FilterWithAddress(Tail(emails))

\* processEmails on an array of raw contacts
processEmails(emails) ==
    LET valid == FilterWithAddress(emails)
        scored == SubSeq([i \in 1..Len(valid) |-> ScoredEmail(valid[i])], 1, Len(valid))
    IN StableSortByKey(scored, [i \in 1..Len(scored) |-> scored[i].priorityX2])


(***************************************************************************)
(* Ordered maps: a Map, or the keys of a plain object, in insertion order  *)
(***************************************************************************)
MapKeys(m) == [i \in 1..Len(m) |-> m[i].key]
MapHas(m, k) == \E i \in 1..Len(m) : m[i].key = k
MapGet(m, k) == m[CHOOSE i \in 1..Len(m) : m[i].key = k].value
MapSet(m, k, v) ==
    IF MapHas(m, k)
    THEN [i \in 1..Len(m) |-> IF m[i].key = k THEN [key |-> k, value |-> v] ELSE m[i]]
    ELSE Append(m, [key |-> k, value |-> v])
MapDelete(m, k) == SelectSeq(m, LAMBDA e : e.key # k)

(***************************************************************************)
(* Cache Layer of part_001: companyCache, loadCache, saveCache, clearCache *)
(*                                                                         *)
(* A cache value is the result object of a lookup.  A value of the         *)
(* persisted snapshot may have any shape: isObject says that it is a       *)
(* non-null object, hasTimestamp that its timestamp is set, emailsIsArray  *)
(* that its emails field is an array; a contact of it is malformed when    *)
(* its email is "".                                                        *)
(***************************************************************************)
\* key.split(':')[0]
CompanyPart(key) == IF Includes(key, ":") THEN SubSeq(key, 1, IndexOf(key, ":") - 1) ELSE key

\* the checks of one snapshot entry without the validation of each email object
LoadableEntryUnvalidated(key, value, clk) ==
    /\ value.isObject /\ value.hasTimestamp
    /\ ~isStale(value.timestamp, clk)
    /\ value.emailsIsArray
    /\ Len(value.emails) # 0
    /\ ToLowerCase(key) \notin FORCE_FRESH_COMPANIES

\* the checks of one snapshot entry in loadCache, up to the duplicate check
LoadableEntry(key, value, clk) ==
    /\ value.isObject /\ value.hasTimestamp
    /\ ~isStale(value.timestamp, clk)
    /\ value.emailsIsArray
    /\ Len(value.emails) # 0
    /\ \A i \in 1..Len(value.emails) : value.emails[i].email # ""
    /\ ToLowerCase(key) \notin FORCE_FRESH_COMPANIES

\* the forEach of loadCache over the entries of the snapshot, from entry i on;
\* loadedCompanies is the set of company parts already loaded
RECURSIVE LoadEntries(_, _, _, _, _)
LoadEntries(data, i, cache, loadedCompanies, clk) ==
    IF i > Len(data) THEN cache
    ELSE LET key == data[i].key
             value == data[i].value
             companyPart == ToLowerCase(CompanyPart(key))
         IN IF LoadableEntry(key, value, clk) /\ companyPart \notin loadedCompanies
            THEN LoadEntries(data, i + 1,
                    MapSet(cache, key,
                        IF value.originalCompany = ""
                        THEN [value EXCEPT !.originalCompany = CompanyPart(key)]
                        ELSE value),
                    loadedCompanies \cup {companyPart}, clk)
            ELSE LoadEntries(data, i + 1, cache, loadedCompanies, clk)

\* loadCache: the cache after it.  st is the persisted store, kvOk says whether the
\* KeyValueStore answers (a failure is caught and logged).
loadCache(disabled, cache, st, kvOk, clk) ==
    IF disabled THEN << >>
    ELSE IF ~kvOk \/ st.isNull THEN cache
    ELSE LoadEntries(st.entries, 1, cache, {}, clk)

\* the filter of saveCache: the object that is written
SaveObject(cache) ==
    SelectSeq(cache, LAMBDA e : e.value.isObject /\ e.value.emailsIsArray
                                    /\ Len(e.value.emails) > 0)

\* saveCache: the store after it
saveCache(disabled, cache, st, kvOk) ==
    IF disabled \/ ~kvOk THEN st
    ELSE [isNull |-> FALSE, entries |-> SaveObject(cache), origin |-> "saved"]


(***************************************************************************)
(* Company Name Parser: parseCompanyAndLocation                            *)
(* (the same text in part_001 and part_002; each uses its own              *)
(* EXCLUDED_COMPANIES)                                                     *)
(*                                                                         *)
(* The bullet character U+2022 of the listings is written "^" in the       *)
(* strings of the model.                                                   *)
(***************************************************************************)
BULLET == "^"

IsLetter(c) == IsUpper(c) \/ IsLower(c)

\* the least and the greatest element of a set of positions, 0 for the empty set
MinOrZero(S) == IF S = {} THEN 0 ELSE CHOOSE i \in S : \A j \in S : i <= j
MaxOrZero(S) == IF S = {} THEN 0 ELSE CHOOSE i \in S : \A j \in S : j <= i

\* the first index in 1..n that satisfies P, 0 when there is none
FirstIndex(n, P(_)) == MinOrZero({i \in 1..n : P(i)})

\* the last index in 1..n that satisfies P, 0 when there is none
LastIndex(n, P(_)) == MaxOrZero({i \in 1..n : P(i)})

\* s.indexOf(t, from) with 1-based positions: the first occurrence at or after from, 0 if none
IndexOfFrom(s, t, from) ==
    FirstIndex(Len(s), LAMBDA i : i >= from /\ i + Len(t) - 1 <= Len(s)
                                    /\ SubSeq(s, i, i + Len(t) - 1) = t)

\* s.lastIndexOf(t), 1-based, 0 if none
LastIndexOf(s, t) ==
    LastIndex(Len(s), LAMBDA i : i + Len(t) - 1 <= Len(s) /\ SubSeq(s, i, i + Len(t) - 1) = t)

\* s.split(/\s+/)
RECURSIVE SplitWs(_)
SplitWs(s) ==
    LET i == FirstIndex(Len(s), LAMBDA j : IsSpace(CharAt(s, j)))
    IN IF i = 0 THEN <<s>>
       ELSE LET rest == SubSeq(s, i, Len(s))
            IN <<SubSeq(s, 1, i - 1)>> \o SplitWs(SubSeq(rest, SpaceRun(rest) + 1, Len(rest)))

\* s.split(c)[0] for a single character c
BeforeFirst(s, c) == IF Includes(s, c) THEN SubSeq(s, 1, IndexOf(s, c) - 1) ELSE s

\* the last blank-separated word of s and what precedes its blanks, when s is
\* \s+ word at its end; the match of /\s+(w1|w2|...)$/i for word in lower case
EndsWithSpacedWord(s, word) ==
    /\ EndsWith(ToLowerCase(s), word)
    /\ IsSpace(CharAt(s, Len(s) - Len(word)))

\* s without the blanks at its end and the word of length n after them
DropSpacedWord(s, n) == TrimEnd(SubSeq(s, 1, Len(s) - n))

\* genericTerms of parseCompanyAndLocation
genericTerms ==
    << "restaurant group", "hospitality group", "restaurant", "hospitality", "group",
       "consulting", "management", "restaurant consulting", "hospitality consulting",
       "food and beverage", "f&b", "bar", "cafe", "bistro", "tavern", "eatery", "catering",
       "culinary", "culinary group", "bakery", "dining", "dining group",
       "restaurant management", "hospitality management", "fine dining" >>

\* commonLocations of parseCompanyAndLocation
commonLocations ==
    << "New York", "Los Angeles", "Chicago", "Houston", "Phoenix", "Philadelphia",
       "San Antonio", "San Diego", "Dallas", "San Jose", "Austin", "Jacksonville",
       "Fort Worth", "Columbus", "Indianapolis", "Charlotte", "San Francisco", "Seattle",
       "Denver", "Washington", "Boston", "El Paso", "Nashville", "Detroit", "Oklahoma City",
       "Portland", "Las Vegas", "Memphis", "Louisville", "Baltimore", "Milwaukee",
       "Albuquerque", "Tucson", "Fresno", "Sacramento", "Kansas City", "Miami", "Omaha",
       "Raleigh", "Oakland", "Minneapolis", "Tulsa", "Cleveland", "Wichita", "Arlington",
       "New Orleans", "Bakersfield", "Tampa", "Honolulu", "Aurora", "Anaheim", "Santa Ana",
       "St. Louis", "Pittsburgh", "Cincinnati", "Henderson", "Riverside", "St. Paul",
       "Manhattan", "Brooklyn", "Queens", "The Bronx", "Staten Island", "NYC", "NY", "LA",
       "IL", "CA", "FL", "TX", "GA", "MA", "SF", "DC", "PA", "WA", "CO", "AZ", "TN", "MO",
       "OR", "NV", "KY", "IN", "OH", "NC", "MI", "MD", "VA", "NJ", "MN" >>

\* restaurantKeywords of parseCompanyAndLocation
restaurantKeywords ==
    << "restaurants by", "restaurants of", "restaurant group", "hospitality group",
       "dining group", "food group", "culinary group", "chef", "kitchen", "bistro", "cafe",
       "dining", "eatery", "tavern", "grill", "restaurant" >>

\* jobTitlePrefixes of parseCompanyAndLocation
jobTitlePrefixes ==
    << "chef", "sous chef", "pastry chef", "head chef", "executive chef", "general manager",
       "assistant manager", "manager", "director", "server", "bartender", "host", "hostess",
       "cook", "line cook", "a.m.", "p.m.", "morning", "evening", "night", "day", "weekend" >>

\* sortedLocations: [...commonLocations].sort((a, b) => b.length - a.length)
sortedLocations ==
    StableSortByKey(commonLocations, [i \in 1..Len(commonLocations) |-> 0 - Len(commonLocations[i])])

lowerLocations == [i \in 1..Len(commonLocations) |-> ToLowerCase(commonLocations[i])]

\* does the RegExp text of a location (its "." matches any character) match s at
\* position i, ignoring case
LocationMatchesAt(s, i, location) ==
    /\ i >= 1 /\ i + Len(location) - 1 <= Len(s)
    /\ \A k \in 1..Len(location) :
            \/ CharAt(location, k) = "."
            \/ LowerChar(CharAt(s, i + k - 1)) = LowerChar(CharAt(location, k))

\* Step 0: the name of an early exclusion, "" when there is none
EarlyExclusion(rawName, excluded) ==
    LET cleanedRawName == cleanSpecialCharacters(rawName)
        normalizedRawName == RemoveWhitespace(ToLowerCase(cleanedRawName))
        rawNameLower == ToLowerCase(cleanedRawName)
        partial(i) == Includes(normalizedRawName, RemoveWhitespace(PARTIAL_EXCLUSIONS[i]))
        p == FirstIndex(Len(PARTIAL_EXCLUSIONS), partial)
    IN IF p > 0 THEN "Excluded: " \o PARTIAL_EXCLUSIONS[p]
       ELSE IF \E i \in 1..Len(excluded) : Includes(rawNameLower, excluded[i]) THEN "Excluded"
       ELSE ""

\* Step 1: the input starts with a location and has a bullet
StartsWithLocationAndBullet(rawName) ==
    /\ \E i \in 1..Len(lowerLocations) :
            StartsWith(ToLowerCase(cleanSpecialCharacters(rawName)), lowerLocations[i])
    /\ Includes(rawName, BULLET)

\* Step 2.5, first loop: a blank before a city that is run together with the word
\* before it; k is the index of the location the loop is at
RECURSIVE FixCities(_, _)
FixCities(namePart, k) ==
    LET hit(location, i) ==
            IsLetter(CharAt(namePart, i)) /\ LocationMatchesAt(namePart, i + 1, location)
        applies(j) ==
            /\ j >= k
            /\ Len(commonLocations[j]) >= 5
            /\ Includes(namePart, commonLocations[j])
            /\ ~Includes(namePart, " " \o commonLocations[j])
            /\ \E i \in 1..Len(namePart) : hit(commonLocations[j], i)
        \* the next location for which the body of the loop changes namePart
        k0 == FirstIndex(Len(commonLocations), applies)
    IN IF k0 = 0 THEN namePart
       ELSE LET location == commonLocations[k0]
                i0 == FirstIndex(Len(namePart), LAMBDA i : hit(location, i))
            IN FixCities(SubSeq(namePart, 1, i0) \o " " \o location
                            \o SubSeq(namePart, i0 + 1 + Len(location), Len(namePart)), k0 + 1)

\* the words of wordBoundaryPattern
boundaryWords ==
    << "hour", "room", "cafe", "bar", "club", "bistro", "grill", "tap", "lounge", "den",
       "pub", "inn", "shop", "house", "bakery" >>

\* Step 2.5, second part: a blank after a word of wordBoundaryPattern that starts at
\* a word boundary and is followed by two letters or more
FixWordBoundary(namePart) ==
    LET at(i, w) == /\ ~IsWordChar(CharAt(namePart, i - 1))
                    /\ StartsWith(ToLowerCase(SubSeq(namePart, i, Len(namePart))), w)
                    /\ IsLetter(CharAt(namePart, i + Len(w)))
                    /\ IsLetter(CharAt(namePart, i + Len(w) + 1))
        hit(i) == \E k \in 1..Len(boundaryWords) : at(i, boundaryWords[k])
        i0 == FirstIndex(Len(namePart), hit)
    IN IF Includes(namePart, "Barbecue") \/ Includes(namePart, " - ") \/ i0 = 0 THEN namePart
       ELSE LET w == boundaryWords[FirstIndex(Len(boundaryWords),
                                              LAMBDA k : at(i0, boundaryWords[k]))]
            IN SubSeq(namePart, 1, i0 + Len(w) - 1) \o " "
                    \o SubSeq(namePart, i0 + Len(w), Len(namePart))

\* /^(prefix)\s+w1\s+w2$/i where the prefix is one character or more of the class
EndingMatches(s, w1, w2, InClass(_)) ==
    /\ EndsWithSpacedWord(s, w2)
    /\ LET s1 == DropSpacedWord(s, Len(w2))
       IN /\ EndsWithSpacedWord(s1, w1)
          /\ LET pre == SubSeq(s1, 1, Len(s1) - Len(w1))
             IN /\ Len(pre) >= 2
                /\ \A i \in 1..Len(pre) : InClass(CharAt(pre, i))

\* the four all-caps patterns and the seven excludedEndingPatterns of Step 3
fullGroupEndings ==
    << <<"restaurant", "group">>, <<"hospitality", "group">>, <<"fine", "dining">>,
       <<"culinary", "group">> >>
excludedEndingPatterns ==
    << <<"restaurant", "group">>, <<"hospitality", "group">>, <<"fine", "dining">>,
       <<"culinary", "group">>, <<"dining", "group">>, <<"restaurant", "management">>,
       <<"hospitality", "management">> >>

IsFullGroupName(namePart) ==
    \/ \E i \in 1..Len(fullGroupEndings) :
            EndingMatches(namePart, fullGroupEndings[i][1], fullGroupEndings[i][2],
                LAMBDA c : IsLetter(c) \/ IsSpace(c) \/ c \in {".", "'", "&"})
    \/ \E i \in 1..Len(excludedEndingPatterns) :
            EndingMatches(namePart, excludedEndingPatterns[i][1], excludedEndingPatterns[i][2],
                LAMBDA c : c # "\n")

\* /Group\s*NYC\b/i
MatchesGroupNYC(namePart) ==
    \E i \in 1..Len(namePart) :
        /\ StartsWith(ToLowerCase(SubSeq(namePart, i, Len(namePart))), "group")
        /\ LET rest == SubSeq(namePart, i + 5, Len(namePart))
               after == SubSeq(rest, SpaceRun(rest) + 1, Len(rest))
           IN StartsWith(ToLowerCase(after), "nyc") /\ ~IsWordChar(CharAt(after, 4))

\* the endings of isGenericPlusOneWord
genericEndings ==
    << " restaurant group", " fine dining", " hospitality group", " restaurant",
       " hospitality" >>

\* Step 3, the checks of the generic terms on the text potentialCompany found for a
\* keyword: the company name, "" when the loop goes on to the next keyword
KeywordCandidate(keyword, potentialCompany) ==
    LET isExactGenericTerm == ToLowerCase(potentialCompany) \in Range(genericTerms)
        wordCount == Len(SelectSeq(SplitWs(potentialCompany), LAMBDA w : Len(w) > 1))
        isGenericPlusOneWord ==
            /\ wordCount <= 3
            /\ \E i \in 1..Len(genericEndings) :
                    EndsWith(ToLowerCase(potentialCompany), genericEndings[i])
    IN IF ~(isExactGenericTerm \/ isGenericPlusOneWord)
          /\ Len(potentialCompany) > Len(keyword) + 2
       THEN potentialCompany
       ELSE ""

\* Step 3, the end of the text that starts at index: before location loc of
\* commonLocations (the first that occurs after index), the end of namePart for loc = 0
KeywordEnd(namePart, index, loc) ==
    IF loc > 0 THEN IndexOfFrom(namePart, commonLocations[loc], index) - 1 ELSE Len(namePart)

\* Step 3, the body of the loop for a keyword found at index (1-based: the index of
\* the source + 1; 0 when it does not occur)
KeywordExtractAt(namePart, keyword, index) ==
    IF index - 1 > 3 /\ Len(SplitWs(Trim(SubSeq(namePart, 1, index - 1)))) < 2
    THEN KeywordCandidate(keyword,
            Trim(SubSeq(namePart, index,
                KeywordEnd(namePart, index,
                    FirstIndex(Len(commonLocations),
                        LAMBDA i : IndexOfFrom(namePart, commonLocations[i], index) > index)))))
    ELSE ""

\* Step 3, the body of the loop over restaurantKeywords for one keyword: the company
\* name it extracts, "" when it goes on to the next keyword
KeywordExtract(namePart, keyword) ==
    KeywordExtractAt(namePart, keyword, IndexOf(ToLowerCase(namePart), keyword))

\* Step 3, the outcome of the loop when keyword k is the first that extracts a name
\* (0: none does)
KeywordScanAt(namePart, k) ==
    IF k = 0 THEN [namePart |-> namePart, extracted |-> FALSE]
    ELSE [namePart |-> KeywordExtract(namePart, restaurantKeywords[k]), extracted |-> TRUE]

\* Step 3, the loop over restaurantKeywords: the name part and whether a company name
\* was extracted
KeywordScan(namePart) ==
    KeywordScanAt(namePart,
        FirstIndex(Len(restaurantKeywords),
                   LAMBDA j : KeywordExtract(namePart, restaurantKeywords[j]) # ""))

\* Step 4, the word boundary check after a location that follows the letter at i0
LocationCutAt(namePart, location, i0) ==
    LET nextCharAfterMatch == CharAt(namePart, i0 + 1 + Len(location))
    IN IF /\ Len(location) > 2 /\ i0 > 0
          /\ (\/ nextCharAfterMatch = ""
              \/ IsSpace(nextCharAfterMatch)
              \/ nextCharAfterMatch \in {",", "."})
       THEN i0 ELSE 0

\* Step 4, the body of the loop over sortedLocations for one location: the position of
\* the letter that the location follows without a blank, 0 when the loop goes on
LocationCut(namePart, location) ==
    LocationCutAt(namePart, location,
        FirstIndex(Len(namePart),
            LAMBDA i : /\ IsLetter(CharAt(namePart, i))
                       /\ LocationMatchesAt(namePart, i + 1, location)
                       /\ ~IsWordChar(CharAt(namePart, i + 1 + Len(location)))))

\* Step 4, the outcome of the loop when location k of sortedLocations is the first
\* that is found (0: none is)
CutAtLocationAt(namePart, k) ==
    IF k = 0 THEN [namePart |-> namePart, locationFound |-> FALSE]
    ELSE [namePart |-> Trim(SubSeq(namePart, 1, LocationCut(namePart, sortedLocations[k]))),
          locationFound |-> TRUE]

\* Step 4, the loop over sortedLocations: the name part cut before the location, and
\* whether one was found
CutAtLocation(namePart) ==
    CutAtLocationAt(namePart,
        FirstIndex(Len(sortedLocations),
                   LAMBDA j : LocationCut(namePart, sortedLocations[j]) > 0))

\* Step 5: the part before the last comma, or before the last two
CutAtComma(namePart) ==
    LET commaIndex == LastIndexOf(namePart, ",")
        firstPart == Trim(SubSeq(namePart, 1, commaIndex - 1))
        earlierCommaIndex == LastIndexOf(firstPart, ",")
    IN IF commaIndex = 0 THEN namePart
       ELSE IF earlierCommaIndex # 0 THEN Trim(SubSeq(firstPart, 1, earlierCommaIndex - 1))
       ELSE firstPart

\* Step 6: namePart.replace(/([a-z])([A-Z])/g, '$1 $2')
RECURSIVE SplitCamelCase(_)
SplitCamelCase(s) ==
    IF Len(s) < 2 THEN s
    ELSE IF IsLower(CharAt(s, 1)) /\ IsUpper(CharAt(s, 2))
    THEN SubSeq(s, 1, 1) \o " " \o SplitCamelCase(SubSeq(s, 2, Len(s)))
    ELSE SubSeq(s, 1, 1) \o SplitCamelCase(SubSeq(s, 2, Len(s)))

\* Step 7: from eleven characters before the first ' by '
CutAtBy(namePart) ==
    LET byIndex == IndexOf(namePart, " by ") - 1
    IN IF byIndex > 0
       THEN Trim(SubSeq(namePart, (IF byIndex - 11 >= 0 THEN byIndex - 11 ELSE 0) + 1,
                        Len(namePart)))
       ELSE namePart

\* Step 8: the endings that /\s+(LLC|Inc|Corporation|Corp|Co\.|Co)\.?$/i matches
entityEndings ==
    << "llc", "llc.", "inc", "inc.", "corporation", "corporation.", "corp", "corp.",
       "co.", "co..", "co" >>
\* the words of /\s+(restaurant|bar|café|cafe|grill|bistro|tavern|kitchen)$/i
venueEndings == << "restaurant", "bar", "café", "cafe", "grill", "bistro", "tavern", "kitchen" >>
\* the words of /(square|food|hospitality|culinary|entertainment)\s+group$/i
keptGroupWords == << "square", "food", "hospitality", "culinary", "entertainment" >>

\* s.replace(/\s+(e1|e2|...)$/i, '') for the endings given in lower case
RemoveSpacedEnding(s, endings) ==
    LET hit(i) == EndsWithSpacedWord(s, endings[i])
        \* the match starts at the first blank from which the rest is blanks and an ending
        k == FirstIndex(Len(endings), hit)
    IN IF k = 0 THEN s ELSE DropSpacedWord(s, Len(endings[k]))

IsKeptGroupName(s) ==
    /\ EndsWithSpacedWord(s, "group")
    /\ \E i \in 1..Len(keptGroupWords) :
            EndsWith(ToLowerCase(DropSpacedWord(s, 5)), keptGroupWords[i])

CleanEntitySuffixes(namePart) ==
    LET s1 == Trim(RemoveSpacedEnding(namePart, entityEndings))
    IN IF IsKeptGroupName(s1) THEN s1 ELSE Trim(RemoveSpacedEnding(s1, venueEndings))

\* Step 9: without the first job title prefix that starts it
RemoveJobTitlePrefix(namePart) ==
    LET k == FirstIndex(Len(jobTitlePrefixes),
                LAMBDA i : StartsWith(ToLowerCase(namePart), jobTitlePrefixes[i] \o " "))
    IN IF k = 0 THEN namePart
       ELSE Trim(SubSeq(namePart, Len(jobTitlePrefixes[k]) + 1, Len(namePart)))

standaloneTerms ==
    << "restaurant", "hospitality", "bar", "cafe", "bistro", "tavern", "eatery", "catering",
       "culinary", "bakery", "dining" >>
validLocationPrefixTerms ==
    << "brewery", "culinary", "dining", "restaurants", "kitchen", "tavern", "bistro" >>

\* Step 10: what is left is a generic term, a location or a fragment
IsNotACompanyName(namePart) ==
    LET lowerNamePart == ToLowerCase(namePart)
        wordCount == Len(SelectSeq(SplitWs(namePart), LAMBDA w : Len(w) > 0))
        containsValidTerm ==
            \E i \in 1..Len(validLocationPrefixTerms) :
                Includes(lowerNamePart, validLocationPrefixTerms[i])
    IN \/ lowerNamePart \in Range(genericTerms)
       \/ wordCount = 1 /\ Len(lowerNamePart) > 2 /\ lowerNamePart \in Range(standaloneTerms)
       \/ lowerNamePart \in Range(lowerLocations)
       \/ /\ Len(namePart) < 20
          /\ ~containsValidTerm
          /\ \E i \in 1..Len(lowerLocations) : StartsWith(lowerNamePart, lowerLocations[i] \o " ")
       \/ Len(namePart) < 3
       \/ /\ Len(namePart) <= 5
          /\ \A i \in 1..Len(namePart) :
                \* namePart.split(' ').every(part => part.length === 1)
                IF i % 2 = 1 THEN CharAt(namePart, i) # " " ELSE CharAt(namePart, i) = " "
          /\ Len(namePart) % 2 = 1

\* Step 10: "Unknown" for what is not a company name
Step10(namePart) ==
    IF IsNotACompanyName(namePart) \/ namePart = "" THEN "Unknown" ELSE namePart

\* Steps 7 to 10, on the name part after Step 6
Steps7To10(namePart, extractedFromKeywords) ==
    Step10(RemoveJobTitlePrefix(CleanEntitySuffixes(
        IF ~extractedFromKeywords /\ Includes(namePart, " by ") THEN CutAtBy(namePart)
        ELSE namePart)))

\* Steps 6 to 10, on the name part after Step 5
Steps6To10(namePart, extractedFromKeywords) ==
    Steps7To10(IF ~Includes(namePart, "NYC") /\ ~Includes(namePart, "SoHo")
               THEN SplitCamelCase(namePart) ELSE namePart,
               extractedFromKeywords)

\* Steps 4 to 10: scan is the outcome of Step 3, cut that of the loop of Step 4 (the
\* loop and Step 5 run only when Step 3 extracted nothing, Step 5 only when the loop
\* found no location)
Steps4To10(scan, cut) ==
    Steps6To10(IF scan.extracted THEN scan.namePart
               ELSE IF cut.locationFound THEN cut.namePart
               ELSE CutAtComma(scan.namePart),
               scan.extracted)

\* Step 3: the name part and whether it is taken as a company name as it is
Step3(namePart) ==
    IF IsFullGroupName(namePart) THEN [namePart |-> namePart, extracted |-> TRUE]
    ELSE IF MatchesGroupNYC(namePart)
    THEN [namePart |-> "Group NYC Hospitality", extracted |-> TRUE]
    ELSE KeywordScan(namePart)

\* Steps 3 to 10, on the outcome of Step 3
Steps3To10(scan) == Steps4To10(scan, CutAtLocation(scan.namePart))

\* Steps 2 and 2.5: the text before the first bullet, cleaned, with the blanks added
Steps2To25(rawName) ==
    FixWordBoundary(FixCities(cleanSpecialCharacters(Trim(BeforeFirst(rawName, BULLET))), 1))

\* the name that parseCompanyAndLocation returns for rawName with the exclusion list
\* of the variant
ParsedName(rawName, excluded) ==
    IF rawName = "" \/ rawName = "Unknown" THEN "Unknown"
    ELSE IF EarlyExclusion(rawName, excluded) # "" THEN EarlyExclusion(rawName, excluded)
    ELSE IF StartsWithLocationAndBullet(rawName) THEN "Unknown"
    ELSE Steps3To10(Step3(Steps2To25(rawName)))

\* parseCompanyAndLocation of part_001
parseCompanyAndLocation(rawName) ==
    [name |-> ParsedName(rawName, EXCLUDED_COMPANIES), location |-> ""]

(***************************************************************************)
(* Orchestrator of part_001: the searches that getCompanyInfo makes         *)
(***************************************************************************)
\* the delimiters of address.split(/[,|BULLET|\/|-]+/)
IsAddressDelimiter(c) == c \in {",", "|", BULLET, "/", "-"}

\* address.split(/[,|BULLET|\/|-]+/)
RECURSIVE SplitAddress(_)
SplitAddress(address) ==
    LET i == FirstIndex(Len(address), LAMBDA j : IsAddressDelimiter(CharAt(address, j)))
        j == FirstIndex(Len(address), LAMBDA k : k > i /\ ~IsAddressDelimiter(CharAt(address, k)))
    IN IF i = 0 THEN <<address>>
       ELSE <<SubSeq(address, 1, i - 1)>>
                \o SplitAddress(IF j = 0 THEN "" ELSE SubSeq(address, j, Len(address)))

\* /\b\d+\b/.test(s): a run of digits between two word boundaries
HasNumberToken(s) ==
    \E i \in 1..Len(s), j \in 1..Len(s) :
        /\ i <= j
        /\ \A k \in i..j : IsDigit(CharAt(s, k))
        /\ ~IsWordChar(CharAt(s, i - 1)) /\ ~IsWordChar(CharAt(s, j + 1))

ignoredWords ==
    { "street", "st", "avenue", "ave", "road", "rd", "blvd", "boulevard", "drive", "dr",
      "lane", "ln", "court", "ct", "place", "pl", "way", "circle", "cir", "suite", "ste",
      "floor", "fl", "unit", "apt", "apartment", "#" }

genericAddressTerms ==
    << "restaurant group", "hospitality group", "restaurant", "hospitality", "group",
       "consulting", "management", "fine dining" >>

\* does the loop of extractPotentialCompaniesFromAddress keep this part
IsPotentialCompany(part, hasStreetNumber) ==
    LET words == SplitWs(ToLowerCase(part))
        ignoredCount == Len(SelectSeq(words, LAMBDA w : w \in ignoredWords))
    IN /\ ~(Len(part) < 4 \/ \A i \in 1..Len(part) : IsDigit(CharAt(part, i)))
       /\ ToLowerCase(part) \notin Range(genericAddressTerms)
       /\ ~(hasStreetNumber /\ (ignoredCount > 0 \/ HasNumberToken(part)))
       /\ ~(IsUpper(CharAt(part, Len(part) - 1)) /\ IsUpper(CharAt(part, Len(part)))
                /\ Len(part) <= 12)

extractPotentialCompaniesFromAddress(address) ==
    IF address = "" \/ address = "N/A" THEN << >>
    ELSE LET split == SplitAddress(address)
             parts == [i \in 1..Len(split) |-> Trim(split[i])]
         IN SelectSeq(parts, LAMBDA part : IsPotentialCompany(part, HasNumberToken(address)))

commonGenericTerms ==
    << "restaurant group", "hospitality group", "restaurant", "hospitality", "group",
       "consulting", "management" >>

\* the exclusion checks of getCompanyInfo on a name without blanks in lower case
IsExcludedNormalized(normalized) ==
    \/ \E i \in 1..Len(PARTIAL_EXCLUSIONS) :
            Includes(normalized, RemoveWhitespace(PARTIAL_EXCLUSIONS[i]))
    \/ \E i \in 1..Len(EXCLUDED_COMPANIES) :
            Includes(normalized, RemoveWhitespace(EXCLUDED_COMPANIES[i]))

\* the search with the whole location string: what getCompanyInfo does with rawLocation
\* after the primary search
LocationStrategy(cleanedCompany, rawLocation) ==
    LET cleanedLocation == cleanSpecialCharacters(rawLocation)
        strategy(kind, source) ==
            [ kind |-> kind, name |-> cleanedLocation, locationName |-> "", source |-> source,
              tag |-> "location" ]
    IN IF rawLocation = "" \/ rawLocation = cleanedCompany THEN << >>
       ELSE IF ToLowerCase(cleanedLocation) \in Range(commonGenericTerms)
       THEN <<strategy("generic", "generic_term_location")>>
       ELSE IF IsExcludedNormalized(RemoveWhitespace(ToLowerCase(cleanedLocation)))
       THEN <<strategy("excluded", "excluded_location")>>
       ELSE <<strategy("lookup", "full_location")>>

\* parsedPotentialCompanies: the parts of the address with the name parsed from each,
\* without those parsed as Unknown
parsedPotentialCompanies(rawLocation) ==
    LET potentialCompanies == extractPotentialCompaniesFromAddress(rawLocation)
        items == [i \in 1..Len(potentialCompanies) |->
                    [ original |-> potentialCompanies[i],
                      parsed |-> ParsedName(potentialCompanies[i], EXCLUDED_COMPANIES) ]]
    IN SelectSeq(items, LAMBDA item : item.parsed # "Unknown")

\* the search with one potential company; index is
\* parsedPotentialCompanies.findIndex(p => p.original === potentialCompany)
PotentialStrategy(item, index) ==
    IF IsExcludedNormalized(RemoveWhitespace(ToLowerCase(item.parsed)))
    THEN [ kind |-> "excluded", name |-> item.parsed, locationName |-> "",
           source |-> "excluded_potential",
           tag |-> "excluded_potential_" \o ToString(index) ]
    ELSE [ kind |-> "lookup", name |-> item.parsed, locationName |-> "",
           source |-> "potential_" \o ToString(index),
           tag |-> "potential_" \o ToString(index) ]

\* the searches with the potential companies kept, items being all of them
StrategiesOf(items, kept) ==
    [i \in 1..Len(kept) |->
        PotentialStrategy(kept[i],
            FirstIndex(Len(items), LAMBDA j : items[j].original = kept[i].original) - 1)]

\* the searches with the potential companies items: without those whose name was
\* tried already
StrategiesWithout(cleanedCompany, rawLocation, items) ==
    StrategiesOf(items,
        SelectSeq(items, LAMBDA item :
            /\ ToLowerCase(item.parsed) # ToLowerCase(cleanedCompany)
            /\ ToLowerCase(item.parsed) # ToLowerCase(rawLocation)))

\* the searches with the potential companies of the address
PotentialStrategies(cleanedCompany, rawLocation) ==
    StrategiesWithout(cleanedCompany, rawLocation, parsedPotentialCompanies(rawLocation))

\* the searches of getCompanyInfo for a listing whose company text parsed to
\* cleanedCompany, in their order
SearchPlanFor(cleanedCompany, rawLocation) ==
    << [ kind |-> "lookup", name |-> cleanedCompany, locationName |-> rawLocation,
         source |-> "company", tag |-> "primary" ] >>
        \o LocationStrategy(cleanedCompany, rawLocation)
        \o PotentialStrategies(cleanedCompany, rawLocation)

\* the searches of getCompanyInfo for a listing, in their order
SearchPlan(rawCompanyName, rawLocation) ==
    SearchPlanFor(ParsedName(rawCompanyName, EXCLUDED_COMPANIES), rawLocation)

(***************************************************************************)
(* Bounds and inputs of the model                                          *)
(***************************************************************************)
\* the day the run starts on, the ticks of the clock and the operations of a run
InitClock == 31
MaxTicks == 1
MaxSteps == 2
MaxListings == 1
TickDays == {1, CACHE_MAX_AGE_DAYS}

NoContact ==
    [ value |-> "", email |-> "", first_name |-> "", last_name |-> "", position |-> "",
      position_raw |-> "", confidence |-> -1, type |-> "" ]

\* raw contacts of the API: with value and title, with the address under email only
\* and without a title, without any address
RawJo == [NoContact EXCEPT !.value = "jo@acme.com", !.first_name = "Jo", !.last_name = "Ray",
                           !.position = "HR Manager", !.confidence = 90, !.type = "personal"]
RawInfo == [NoContact EXCEPT !.email = "info@acme.com", !.confidence = 40, !.type = "generic"]
RawNameless == [NoContact EXCEPT !.first_name = "Al", !.position = "CEO"]

NoData ==
    [ results |-> << >>, emailsIsArray |-> FALSE, emails |-> << >>, linkedin |-> "",
      domain |-> "", headcount |-> "", organization |-> "" ]

NoResponse == [ kind |-> "http", status |-> 200, json |-> "object", hasData |-> TRUE, data |-> NoData ]

RespTimeout == [NoResponse EXCEPT !.kind = "timeout", !.status = 0]
RespNetwork == [NoResponse EXCEPT !.kind = "network", !.status = 0]
Resp429 == [NoResponse EXCEPT !.status = 429]
Resp500 == [NoResponse EXCEPT !.status = 500]
RespBadJson == [NoResponse EXCEPT !.json = "invalid"]
RespNoData == [NoResponse EXCEPT !.hasData = FALSE]
\* data.emails holds the contacts
RespPrimary ==
    [NoResponse EXCEPT !.data = [NoData EXCEPT !.emailsIsArray = TRUE,
                                    !.emails = <<RawInfo, RawNameless, RawJo>>,
                                    !.domain = "acme.com", !.linkedin = "linkedin.com/acme"]]
\* data.results holds them: the first result has no emails, the second has
RespResults ==
    [NoResponse EXCEPT !.data = [NoData EXCEPT !.results =
        << [ company |-> "Acme Holdings", domain |-> "holdings.com", linkedin |-> "",
             employees_count |-> "", headcount |-> "", emailsIsArray |-> TRUE, emails |-> << >> ],
           [ company |-> "Acme", domain |-> "acme.com", linkedin |-> "", employees_count |-> "50",
             headcount |-> "", emailsIsArray |-> TRUE, emails |-> <<RawJo>> ] >>]]
\* a company without contacts
RespEmpty == [NoResponse EXCEPT !.data = [NoData EXCEPT !.emailsIsArray = TRUE, !.domain = "acme.com"]]

FailedResponses == {RespTimeout, RespNetwork, Resp429, Resp500, RespBadJson, RespNoData}
Responses == FailedResponses \cup {RespPrimary, RespResults, RespEmpty}

LookupNames ==
    {"", "Unknown", "Excluded: whole foods", "Chartwells", "Whole Foods Market",
     "Major Food Group", "Acme Bistro", "Fish Cheeks"}
LookupLocations == {"", "Brooklyn", "Acme Bistro"}
LookupSources == {"company", "parent_company"}

\* the listings: raw company texts that parse to Unknown (none, a generic term), to an
\* exclusion with and without a reason, and to a company name; locations without and
\* with a potential company; parent companies
RawCompanies == {"", "Restaurant", "Whole FoodsAustin", "Chartwells", "Acme Bistro", "Blue Hill Inc."}
RawLocations == {"", "Brooklyn, NY", "Blue Hill, 12 Main St"}
ParentCompanies == {"", "Compass Group", "Acme Group"}

\* a second person under the address of RawJo in capitals
RawJoUpper == [NoContact EXCEPT !.value = "JO@ACME.COM", !.first_name = "Jo", !.position = "CEO",
                                !.confidence = 80, !.type = "personal"]
RespUpper ==
    [NoResponse EXCEPT !.data = [NoData EXCEPT !.emailsIsArray = TRUE, !.emails = <<RawJoUpper>>,
                                    !.domain = "acme.com"]]

\* the answers of the API to the requests of one listing, in order
ScriptLen == 2
ScriptResponses == {RespPrimary, RespUpper, Resp500}
OrchScripts == [1..ScriptLen -> ScriptResponses]

\* the answers of the website search of part_002: an exception, no URL, a URL
NoUrl == [threw |-> FALSE, url |-> ""]
WebsiteAnswers ==
    {[NoUrl EXCEPT !.threw = TRUE], NoUrl, [NoUrl EXCEPT !.url = "https://www.acme.com/about"]}
WebsiteScripts == [1..2 -> WebsiteAnswers]

\* the contacts of the strategy results given to the merge: two under the same
\* address in different case, and a third
PoolJo == [ name |-> "Jo Ray", title |-> "HR Manager", email |-> "jo@acme.com",
            confidence |-> 90, priorityX2 |-> 10 ]
PoolJoUpper == [PoolJo EXCEPT !.title = "CEO", !.email = "JO@ACME.COM"]
PoolAl == [PoolJo EXCEPT !.name = "Al", !.title = "N/A", !.email = "al@acme.com",
                         !.priorityX2 = 0]
ContactPool == {PoolJo, PoolJoUpper, PoolAl}

\* the strategy results given to the merge: at most MaxResults results of at most
\* MaxEmails contacts each
MaxEmails == 2
MaxResults == 2
SeqsUpTo(S, n) == UNION {[1..k -> S] : k \in 0..n}
MergeInputs == SeqsUpTo(SeqsUpTo(ContactPool, MaxEmails), MaxResults)

(***************************************************************************)
(* Tables of the pure functions over the inputs of the model: each is the  *)
(* function itself, evaluated once                                         *)
(***************************************************************************)
parsedNameMemo == [rawName \in RawCompanies |-> ParsedName(rawName, EXCLUDED_COMPANIES)] @@ << >>
ParsedNameOf(rawName) ==
    IF rawName \in RawCompanies THEN parsedNameMemo[rawName]
    ELSE ParsedName(rawName, EXCLUDED_COMPANIES)

searchPlanMemo ==
    [listed \in RawCompanies \X RawLocations |-> SearchPlan(listed[1], listed[2])] @@ << >>
SearchPlanOf(rawCompanyName, rawLocation) ==
    IF <<rawCompanyName, rawLocation>> \in RawCompanies \X RawLocations
    THEN searchPlanMemo[<<rawCompanyName, rawLocation>>]
    ELSE SearchPlan(rawCompanyName, rawLocation)

parsedName002Memo ==
    [rawName \in RawCompanies \cup ParentCompanies |->
        ParsedName(rawName, EXCLUDED_COMPANIES002)] @@ << >>

\* the names that the lookups of the model are made for: those of the callers, the
\* locations, and the names parsed from the listings
MemoNames ==
    LookupNames \cup LookupLocations \cup RawLocations \cup ParentCompanies
        \cup {"Excluded", "Acme", "Acme Group", "Blue Hill"}

cleanedNameMemo == [n \in MemoNames |-> cleanCompanyName(cleanSpecialCharacters(n))] @@ << >>
CleanedNameOf(n) ==
    IF n \in MemoNames THEN cleanedNameMemo[n] ELSE cleanCompanyName(cleanSpecialCharacters(n))

lowerMemo ==
    [n \in MemoNames \cup {cleanedNameMemo[m] : m \in MemoNames}
            \cup {c.email : c \in ContactPool} \cup {"acme.com"}
            \cup {e.value : e \in {RawJo, RawInfo, RawJoUpper}} \cup {RawInfo.email}
        |-> ToLowerCase(n)] @@ << >>
LowerOf(s) == IF s \in DOMAIN lowerMemo THEN lowerMemo[s] ELSE ToLowerCase(s)

MemoEmailLists ==
    {r.data.emails : r \in Responses \cup ScriptResponses}
        \cup {r.data.results[i].emails : r \in {RespResults}, i \in 1..2}
        \cup {<<RawJo>>}
processedMemo == [e \in MemoEmailLists |-> processEmails(e)] @@ << >>
ProcessedOf(emails) == IF emails \in MemoEmailLists THEN processedMemo[emails] ELSE processEmails(emails)

\* the titles given to the scorer: every entry of TITLE_PRIORITY in capitals, some as
\* they are listed, and titles of contacts that are no entry
ListedTitles == {ToUpperCase(TITLE_PRIORITY[i]) : i \in 1..Len(TITLE_PRIORITY)}
OtherTitles ==
    {"hr manager", "ceo", "coo", "HR Manager", "CEO", "Chief People Officer", "Line Cook",
     "Sous Chef", "Manager of HR", ""}
ScoredTitles == ListedTitles \cup OtherTitles

\* the contact lists given to the sort by title
SortedTitles == {"HR Manager", "Line Cook", "CEO", "Chief People Officer", "Sous Chef"}
ContactLen == 3
TitleLists == [1..ContactLen -> SortedTitles]

\* the raw company texts given to the parser on its own: the place names alone, names
\* that end with a whole-name form, with a leading word and without one, and names
\* with entity suffixes, venue words and job titles
PlaceNames == Range(commonLocations)
WholeNames ==
    {"MARCUS SAMUELSSON RESTAURANT GROUP", "Marcus Samuelsson Restaurant Group",
     "Acme Hospitality Group", "Blue Hill Fine Dining", "Acme Culinary Group",
     "Acme Dining Group", "Acme Restaurant Management", "Acme Hospitality Management",
     "Chef Marcus Restaurant Group", "NY Restaurant Group"}
OtherNames ==
    {"Acme Bar Grill", "Acme Inc LLC", "Blue Hill Inc.", "Acme Bistro", "Acme",
     "Restaurant Group", "Fish Cheeks", "Line Cook Acme Tavern", "Acme, Brooklyn, NY"}
ParseInputs == PlaceNames \cup WholeNames \cup OtherNames \cup RawCompanies

\* the raw contacts given to the contact scorer: contacts with the address under
\* value, under email or without one, with and without a title, and contacts without
\* a title that differ in address, name, confidence and type
TitledContacts ==
    { [NoContact EXCEPT !.value = value, !.email = email, !.position = position,
                        !.position_raw = position_raw, !.confidence = confidence,
                        !.type = "generic"] :
        value \in {"", "jo@acme.com", "info@acme.com"}, email \in {"", "al@acme.com"},
        position \in {"", " ", "HR Manager", "Line Cook"}, position_raw \in {"", "CEO"},
        confidence \in {0, 100} }
UntitledContacts ==
    { [NoContact EXCEPT !.value = value, !.first_name = first_name,
                        !.confidence = confidence, !.type = type] :
        value \in {"jo@acme.com", "info@acme.com"}, first_name \in {"", "Jo"},
        confidence \in {-1, 0, 50, 100}, type \in {"", "personal", "generic"} }
ContactPairs == TitledContacts \X UntitledContacts

titleRankMemo ==
    [title \in {c.title : c \in ContactPool} |-> getTitlePriority(title)] @@ << >>
scoredTitleMemo == [title \in ScoredTitles |-> getTitlePriority(title)] @@ << >>
lowerTitleMemo == [title \in ScoredTitles |-> ToLowerCase(title)] @@ << >>
TitleRankOf(title) ==
    IF title \in DOMAIN titleRankMemo THEN titleRankMemo[title] ELSE getTitlePriority(title)

(***************************************************************************)
(* Enrichment Client of part_001: getCompanyInfoWithSource                 *)
(*                                                                         *)
(* A response of the external API is a record: kind is "timeout" (the      *)
(* race with timeout() lost), "network" (fetch rejected) or "http"; json   *)
(* is "invalid" (response.json() rejects), "null" or "object"; hasData     *)
(* says that the object has a data member.                                 *)
(*                                                                         *)
(* The function runs in steps: its head up to the request (LookupHead),    *)
(* the try block once the response is there (LookupTry), and the catch     *)
(* clause, which may call the function again for the location.             *)
(***************************************************************************)
EmptyResult(linkedin, source, clk) ==
    [ isObject |-> TRUE, hasTimestamp |-> TRUE, timestamp |-> clk, emailsIsArray |-> TRUE,
      emails |-> << >>, linkedin |-> linkedin, domain |-> "N/A", size |-> "N/A",
      source |-> source, originalCompany |-> "" ]

OrNA(x) == IF x # "" THEN x ELSE "N/A"

\* the guard at the head of the function
IsSkippedName(companyName) ==
    companyName = "" \/ companyName = "Unknown" \/ StartsWith(companyName, "Excluded:")

\* the exact exclusion check, on the cleaned name
IsExactExcluded(lowerCleanedName) ==
    \/ lowerCleanedName \in Range(EXCLUDED_COMPANIES)
    \/ \E i \in 1..Len(EXCLUDED_COMPANIES) :
            Includes(RemoveWhitespace(lowerCleanedName), RemoveWhitespace(EXCLUDED_COMPANIES[i]))

\* the partial exclusion check, on the cleaned name
IsPartialExcluded(lowerCleanedName) ==
    \E i \in 1..Len(PARTIAL_EXCLUSIONS) :
        \/ Includes(lowerCleanedName, PARTIAL_EXCLUSIONS[i])
        \/ Includes(RemoveWhitespace(lowerCleanedName), RemoveWhitespace(PARTIAL_EXCLUSIONS[i]))

excludedMemo ==
    [n \in MemoNames |-> IsExactExcluded(LowerOf(CleanedNameOf(n)))
                            \/ IsPartialExcluded(LowerOf(CleanedNameOf(n)))] @@ << >>
\* both exclusion checks of the name
IsExcludedName(companyName) ==
    IF companyName \in MemoNames THEN excludedMemo[companyName]
    ELSE IsExactExcluded(LowerOf(CleanedNameOf(companyName)))
            \/ IsPartialExcluded(LowerOf(CleanedNameOf(companyName)))

\* shouldForceRefresh
IsForceFresh(companyName) == LowerOf(CleanedNameOf(companyName)) \in FORCE_FRESH_COMPANIES

\* the key under which a result is cached
CacheKey(companyName, source) == LowerOf(companyName) \o ":" \o source

\* the deletions of a forced refresh
ForceRefresh(cache, lowerCleanedName) ==
    SelectSeq(cache, LAMBDA e : ~Includes(ToLowerCase(e.key), lowerCleanedName))

\* the test of a cache hit
CacheHitUsable(cachedData) == cachedData.emailsIsArray /\ Len(cachedData.emails) > 0

\* the outcome of one (nested) call, with the HTTP status of its response
Level(companyName, source, outcome, http) ==
    [companyName |-> companyName, source |-> source, outcome |-> outcome, http |-> http]

\* the cache after the deletions of a forced refresh, when the name asks for one
RefreshedCache(cache, companyName, source) ==
    IF IsForceFresh(companyName)
    THEN ForceRefresh(MapDelete(cache, CacheKey(companyName, source)),
                      LowerOf(CleanedNameOf(companyName)))
    ELSE cache

\* lines 1188-1223: the cache check and the request, on the cache after the forced
\* refresh; hit says that caching is in use and the cache has the key
LookupCached(companyName, source, cache1, cacheKey, hit, clk) ==
    IF hit /\ CacheHitUsable(MapGet(cache1, cacheKey))
    THEN [ done |-> TRUE, ret |-> MapGet(cache1, cacheKey),
           level |-> Level(companyName, source, "cache_hit", 0),
           cache |-> cache1, request |-> [term |-> "", company |-> "", source |-> ""] ]
    ELSE [ done |-> FALSE, ret |-> EmptyResult("N/A", source, clk),
           level |-> Level(companyName, source, "awaiting", 0),
           cache |-> IF hit THEN MapDelete(cache1, cacheKey) ELSE cache1,
           request |-> [term |-> companyName, company |-> Trim(CleanedNameOf(companyName)),
                        source |-> source] ]

\* the same, with the test of the hit made on the cache after the forced refresh
LookupRefreshed(companyName, source, cache1, clk, disabled) ==
    LookupCached(companyName, source, cache1, CacheKey(companyName, source),
                 /\ ~disabled /\ ~IsForceFresh(companyName)
                 /\ MapHas(cache1, CacheKey(companyName, source)),
                 clk)

\* lines 1124-1223: the checks before the request.  done says that the function
\* returns ret without a request; otherwise request goes out.
LookupHead(companyName, source, cache, clk, disabled) ==
    IF IsSkippedName(companyName)
    THEN [ done |-> TRUE, ret |-> EmptyResult("N/A", source, clk),
           level |-> Level(companyName, source, "skipped", 0),
           cache |-> cache, request |-> [term |-> "", company |-> "", source |-> ""] ]
    ELSE IF IsExcludedName(companyName)
    THEN [ done |-> TRUE, ret |-> EmptyResult("Excluded", source, clk),
           level |-> Level(companyName, source, "excluded", 0),
           cache |-> cache, request |-> [term |-> "", company |-> "", source |-> ""] ]
    ELSE LookupRefreshed(companyName, source, RefreshedCache(cache, companyName, source),
                         clk, disabled)

\* response.ok
ResponseOk(resp) == resp.status \in 200..299

\* does the try block throw on this response
FetchThrows(resp) ==
    \/ resp.kind \in {"timeout", "network"}
    \/ ~ResponseOk(resp)
    \/ resp.json # "object"
    \/ ~resp.hasData

\* delay(10000) after a 429
CoolDownMs(resp) == IF resp.kind = "http" /\ resp.status = 429 THEN 10000 ELSE 0

\* index of the first result with emails, 0 if none
BestResultIndex(results) ==
    LET has(i) == results[i].emailsIsArray /\ Len(results[i].emails) > 0
    IN IF \E i \in 1..Len(results) : has(i)
       THEN CHOOSE i \in 1..Len(results) : has(i) /\ \A j \in 1..(i - 1) : ~has(j)
       ELSE 0

\* the result object built from bestResult, entry i of data.results
ResultFromBest(bestResult, i, source, clk) ==
    [ isObject |-> TRUE, hasTimestamp |-> TRUE, timestamp |-> clk, emailsIsArray |-> TRUE,
      emails |-> ProcessedOf(bestResult.emails),
      linkedin |-> OrNA(bestResult.linkedin), domain |-> OrNA(bestResult.domain),
      size |-> IF bestResult.employees_count # "" THEN bestResult.employees_count
               ELSE OrNA(bestResult.headcount),
      source |-> source \o "_result_" \o ToString(i), originalCompany |-> "" ]

\* the result object built from the selected entry of data.results
ResultFromResults(data, source, clk) ==
    ResultFromBest(data.results[BestResultIndex(data.results)], BestResultIndex(data.results),
                   source, clk)

\* the result object built from the primary data and the contacts processed from it
ResultWithEmails(data, processedEmails, companyName, source, clk) ==
    [ isObject |-> TRUE, hasTimestamp |-> TRUE, timestamp |-> clk, emailsIsArray |-> TRUE,
      emails |-> processedEmails,
      linkedin |-> OrNA(data.linkedin), domain |-> OrNA(data.domain),
      size |-> OrNA(data.headcount),
      source |-> source,
      originalCompany |-> IF Len(processedEmails) > 0 THEN companyName ELSE "" ]

\* the result object built from the primary data
ResultFromPrimary(data, companyName, source, clk) ==
    ResultWithEmails(data, IF data.emailsIsArray THEN ProcessedOf(data.emails) ELSE << >>,
                     companyName, source, clk)

\* a client that stores every result
ShouldCacheAlways(result) == TRUE

\* a result is stored only when it has emails
ShouldCache(result) == Len(result.emails) > 0

\* lines 1361-1367: the result is put into the cache and the cache is saved
Stored(result, cache1, st, kvOk, disabled) ==
    [ ret |-> result, cache |-> cache1, store |-> saveCache(disabled, cache1, st, kvOk) ]

\* lines 1355-1374: the result is stored when it has emails, and returned
CacheResult(result, cacheKey, kvOk, cache, st, disabled) ==
    IF ShouldCache(result) /\ ~disabled
    THEN Stored(result, MapSet(cache, cacheKey, result), st, kvOk, disabled)
    ELSE [ ret |-> result, cache |-> cache, store |-> st ]

\* lines 1208-1374: the try block on a response that does not make it throw
LookupTry(companyName, source, resp, kvOk, cache, st, clk, disabled) ==
    IF BestResultIndex(resp.data.results) > 0
    THEN [ ret |-> ResultFromResults(resp.data, source, clk), cache |-> cache, store |-> st ]
    ELSE CacheResult(ResultFromPrimary(resp.data, companyName, source, clk),
                     CacheKey(companyName, source), kvOk, cache, st, disabled)

\* a catch clause that catches only the errors thrown for an HTTP status
CaughtOnlyHttp(resp) == resp.kind = "http"

\* the catch clause catches every error of the try block
Caught(resp) == TRUE

\* a retry that does not look at the source of the failed call
ShouldRetryAnyMode(companyName, locationName, source) ==
    locationName # "" /\ locationName # companyName

\* lines 1375-1382: the retry of the catch clause
ShouldRetry(companyName, locationName, source) ==
    source = "company" /\ locationName # "" /\ locationName # companyName

\* a valid value of the persisted snapshot
SnapValue(ts, source, emails) ==
    [ isObject |-> TRUE, hasTimestamp |-> TRUE, timestamp |-> ts, emailsIsArray |-> TRUE,
      emails |-> emails, linkedin |-> "N/A", domain |-> "acme.com", size |-> "N/A",
      source |-> source, originalCompany |-> "" ]

SnapContacts == ProcessedOf(<<RawJo>>)

\* the snapshot a previous run left: an entry on the last day of its life, the same
\* company under a second source tag, a stale entry, an entry without emails, and
\* malformed entries
SnapMixed ==
    << [key |-> "acme bistro:company",
        value |-> SnapValue(InitClock - CACHE_MAX_AGE_DAYS, "company", SnapContacts)],
       [key |-> "acme bistro:parent_company",
        value |-> SnapValue(InitClock, "parent_company", SnapContacts)],
       [key |-> "brooklyn:location",
        value |-> SnapValue(InitClock - CACHE_MAX_AGE_DAYS - 1, "location", SnapContacts)],
       [key |-> "old cafe:company", value |-> SnapValue(InitClock, "company", << >>)],
       [key |-> "no stamp:company",
        value |-> [SnapValue(0, "company", SnapContacts) EXCEPT !.hasTimestamp = FALSE]],
       [key |-> "no array:company",
        value |-> [SnapValue(InitClock, "company", << >>) EXCEPT !.emailsIsArray = FALSE]],
       [key |-> "no address:company",
        value |-> SnapValue(InitClock, "company",
                     <<[SnapContacts[1] EXCEPT !.email = ""]>>)] >>

\* a snapshot whose malformed entries come first: each of them is followed by a
\* valid entry of the same company under another source tag
SnapMalformedFirst ==
    << [key |-> "blue hill:company",
        value |-> [SnapValue(0, "company", SnapContacts) EXCEPT !.hasTimestamp = FALSE]],
       [key |-> "blue hill:parent_company",
        value |-> SnapValue(InitClock, "parent_company", SnapContacts)],
       [key |-> "cafe:company",
        value |-> [SnapValue(InitClock, "company", << >>) EXCEPT !.emailsIsArray = FALSE]],
       [key |-> "cafe:parent_company",
        value |-> SnapValue(InitClock, "parent_company", << >>)],
       [key |-> "cafe:location",
        value |-> SnapValue(InitClock, "location",
                     <<SnapContacts[1], [SnapContacts[1] EXCEPT !.email = ""]>>)],
       [key |-> "cafe:potential_company_1",
        value |-> SnapValue(InitClock, "potential_company_1", SnapContacts)] >>

InitialStores ==
    { [isNull |-> TRUE, entries |-> << >>, origin |-> "external"],
      [isNull |-> FALSE, entries |-> SnapMixed, origin |-> "external"],
      [isNull |-> FALSE, entries |-> SnapMalformedFirst, origin |-> "external"] }

(***************************************************************************)
(* Orchestrator of part_001: getCompanyInfo                                *)
(***************************************************************************)
\* the answer to the next request of a script of answers; a request that the script
\* has no answer for times out
NextResponse(resps) == IF Len(resps) = 0 THEN RespTimeout ELSE Head(resps)
RestResponses(resps) == IF Len(resps) = 0 THEN resps ELSE Tail(resps)

\* the outcome of a call that sent request and got the outcome t of its try block
Fetched(request, t, resps) ==
    [ ret |-> t.ret, reqs |-> <<request>>, resps |-> resps, cache |-> t.cache,
      store |-> t.store ]

\* the outcome of a call that sent request and then retried with outcome r
Retried(request, r) == [r EXCEPT !.reqs = <<request>> \o r.reqs]

\* getCompanyInfoWithSource from its call to its return, the API answering its
\* requests with resps in order: the result, the requests, the answers not used and
\* the cache and the store after it.  LookupFrom is the function after its head h.
RECURSIVE LookupRun(_, _, _, _, _, _, _, _, _)
LookupFrom(h, companyName, locationName, source, resps, kvOk, st, clk, disabled) ==
    IF h.done
    THEN [ ret |-> h.ret, reqs |-> << >>, resps |-> resps, cache |-> h.cache, store |-> st ]
    ELSE IF ~FetchThrows(NextResponse(resps))
    THEN Fetched(h.request,
                 LookupTry(companyName, source, NextResponse(resps), kvOk, h.cache, st, clk,
                           disabled),
                 RestResponses(resps))
    ELSE IF ShouldRetry(companyName, locationName, source)
    THEN Retried(h.request,
                 LookupRun(locationName, "", "location", RestResponses(resps), kvOk,
                           h.cache, st, clk, disabled))
    ELSE [ ret |-> EmptyResult("Error", source, clk), reqs |-> <<h.request>>,
           resps |-> RestResponses(resps), cache |-> h.cache, store |-> st ]

LookupRun(companyName, locationName, source, resps, kvOk, cache, st, clk, disabled) ==
    LookupFrom(LookupHead(companyName, source, cache, clk, disabled),
               companyName, locationName, source, resps, kvOk, st, clk, disabled)

\* Array.prototype.sort with a comparator: stable; Before(a, b) says that the
\* comparator puts a before b
StableSort(items, Before(_, _)) ==
    LET n == Len(items)
        pos(i) == Len(SelectSeq([j \in 1..n |-> j],
                    LAMBDA j : \/ Before(items[j], items[i])
                               \/ (~Before(items[i], items[j]) /\ j < i))) + 1
    IN SubSeq([p \in 1..n |-> items[CHOOSE i \in 1..n : pos(i) = p]], 1, n)

\* the elements of a sequence without repetitions, in the order of their first
\* occurrence: Array.from(new Set(seq))
RECURSIVE Unique(_)
Unique(seq) ==
    IF Len(seq) = 0 THEN << >>
    ELSE LET init == Unique(SubSeq(seq, 1, Len(seq) - 1))
             last == seq[Len(seq)]
         IN IF last \in Range(init) THEN init ELSE Append(init, last)

\* array.join(sep)
RECURSIVE Join(_, _)
Join(seq, sep) ==
    IF Len(seq) = 0 THEN ""
    ELSE IF Len(seq) = 1 THEN seq[1]
    ELSE seq[1] \o sep \o Join(Tail(seq), sep)

\* a key that keeps the case of the address
EmailKeyExact(email) == email.email

\* the key under which the merge remembers an address
EmailKey(email) == LowerOf(email.email)

\* the contacts of the results, each with the source of its result, in order; a
\* result is [source, emails] here
RECURSIVE TaggedEmails(_)
TaggedEmails(results) ==
    IF Len(results) = 0 THEN << >>
    ELSE LET emails == results[1].emails
         IN [i \in 1..Len(emails) |->
                [ name |-> emails[i].name, title |-> emails[i].title, email |-> emails[i].email,
                  confidence |-> emails[i].confidence, priorityX2 |-> emails[i].priorityX2,
                  source |-> results[1].source ]]
            \o TaggedEmails(Tail(results))

\* the loop that adds the contacts whose key was not added before
RECURSIVE AddWithoutDuplicates(_)
AddWithoutDuplicates(emails) ==
    IF Len(emails) = 0 THEN << >>
    ELSE LET init == AddWithoutDuplicates(SubSeq(emails, 1, Len(emails) - 1))
             last == emails[Len(emails)]
         IN IF \E i \in 1..Len(init) : EmailKey(init[i]) = EmailKey(last) THEN init
            ELSE Append(init, last)

\* a sort by the score of the contact instead of the rank of its title
SortKeyScore(email) == email.priorityX2

\* the key of the final sort of the merged contacts
SortKey(email) == TitleRankOf(email.title)

SortByTitle(emails) == StableSortByKey(emails, [i \in 1..Len(emails) |-> SortKey(emails[i])])

\* the merge of getCompanyInfo of part_001; an element of allResults is
\* [source, data]
MergeResults(allResults, clk) ==
    LET data(i) == allResults[i].data
        linkedins == Unique(SelectSeq([i \in 1..Len(allResults) |-> data(i).linkedin],
                        LAMBDA l : l \notin {"", "N/A", "Excluded", "Error"}))
        domains == Unique(SelectSeq([i \in 1..Len(allResults) |-> data(i).domain],
                        LAMBDA d : d \notin {"", "N/A"}))
        sorted == StableSort(allResults, LAMBDA a, b : Len(a.data.emails) > Len(b.data.emails))
        sized == SelectSeq(sorted, LAMBDA r : r.data.size # "N/A")
        merged == AddWithoutDuplicates(TaggedEmails(
                    [i \in 1..Len(sorted) |->
                        [source |-> sorted[i].source, emails |-> sorted[i].data.emails]]))
    IN [ linkedin |-> IF Len(linkedins) > 0 THEN Join(linkedins, "; ") ELSE "N/A",
         domain |-> IF Len(domains) > 0 THEN Join(domains, "; ") ELSE "N/A",
         size |-> IF Len(sized) > 0 THEN sized[1].data.size ELSE "N/A",
         emails |-> SortByTitle(merged),
         timestamp |-> clk,
         source |-> "merged",
         sourcesWithEmails |-> Len(SelectSeq(sorted, LAMBDA r : Len(r.data.emails) > 0)) ]

\* acc after a lookup with outcome r whose result goes under tag
AfterLookup(tag, acc, r) ==
    [ allResults |-> Append(acc.allResults, [source |-> tag, data |-> r.ret]),
      reqs |-> acc.reqs \o r.reqs, resps |-> r.resps, cache |-> r.cache, store |-> r.store ]

\* acc after one search of the plan: a lookup, or the fixed result of a generic or
\* excluded term
AfterSearch(strategy, acc, kvOk, clk, disabled) ==
    IF strategy.kind = "lookup"
    THEN AfterLookup(strategy.tag, acc,
            LookupRun(strategy.name, strategy.locationName, strategy.source, acc.resps,
                      kvOk, acc.cache, acc.store, clk, disabled))
    ELSE [acc EXCEPT !.allResults =
            Append(acc.allResults,
                [ source |-> strategy.tag,
                  data |-> EmptyResult(IF strategy.kind = "excluded" THEN "Excluded" ELSE "N/A",
                                       strategy.source, clk) ])]

\* the searches of plan run one after the other; acc holds the results so far, the
\* requests sent, the answers left, and the cache and the store
RECURSIVE RunSearches(_, _, _, _, _)
RunSearches(plan, acc, kvOk, clk, disabled) ==
    IF Len(plan) = 0 THEN acc
    ELSE RunSearches(Tail(plan), AfterSearch(plan[1], acc, kvOk, clk, disabled),
                     kvOk, clk, disabled)

\* the merged result of the searches done
Merged001(done, clk) ==
    [ result |-> MergeResults(done.allResults, clk), reqs |-> done.reqs,
      cache |-> done.cache, store |-> done.store ]

\* getCompanyInfo of part_001: the merged result, the requests sent and the cache and
\* the store after it
getCompanyInfo(rawCompanyName, rawLocation, resps, kvOk, cache, st, clk, disabled) ==
    Merged001(RunSearches(SearchPlanOf(rawCompanyName, rawLocation),
                    [ allResults |-> << >>, reqs |-> << >>, resps |-> resps,
                      cache |-> cache, store |-> st ], kvOk, clk, disabled), clk)

(***************************************************************************)
(* Orchestrator of part_002: getCompanyInfo, with the enrichment client    *)
(* whose contact collection is switched off                                *)
(***************************************************************************)
ParsedName002Of(rawName) ==
    IF rawName \in RawCompanies \cup ParentCompanies THEN parsedName002Memo[rawName]
    ELSE ParsedName(rawName, EXCLUDED_COMPANIES002)

\* a result of the client of part_002
Result002(linkedin, domain, source, originalCompany, clk) ==
    [ linkedin |-> linkedin, domain |-> domain, size |-> "N/A", emails |-> << >>,
      timestamp |-> clk, source |-> source, originalCompany |-> originalCompany ]

\* the exclusion checks of getCompanyInfoWithSource of part_002
IsExcluded002(searchTerm) ==
    LET lowerCleanedName == ToLowerCase(cleanSpecialCharacters(searchTerm))
        normalizedName == RemoveWhitespace(lowerCleanedName)
    IN \/ lowerCleanedName \in Range(EXCLUDED_COMPANIES002)
       \/ \E i \in 1..Len(EXCLUDED_COMPANIES002) :
                Includes(normalizedName, RemoveWhitespace(EXCLUDED_COMPANIES002[i]))
       \/ \E i \in 1..Len(PARTIAL_EXCLUSIONS) :
                \/ Includes(lowerCleanedName, PARTIAL_EXCLUSIONS[i])
                \/ Includes(normalizedName, RemoveWhitespace(PARTIAL_EXCLUSIONS[i]))

excluded002Memo ==
    [n \in MemoNames |-> IsExcluded002(n)] @@ << >>
IsExcluded002Of(searchTerm) ==
    IF searchTerm \in MemoNames THEN excluded002Memo[searchTerm]
    ELSE IsExcluded002(searchTerm)

\* getCompanyInfoWithSource of part_002: it sends no request
getCompanyInfoWithSource002(searchTerm, searchType, source, clk) ==
    IF searchTerm = "" \/ searchTerm = "Unknown" \/ StartsWith(searchTerm, "Excluded:")
    THEN Result002("N/A", "N/A", source \o "_skipped", "", clk)
    ELSE IF searchType = "company" /\ IsExcluded002Of(searchTerm)
    THEN Result002("Excluded", "N/A", source \o "_excluded", "", clk)
    ELSE Result002("N/A", IF searchType = "domain" THEN searchTerm ELSE "N/A",
                   source \o "_contact_disabled", searchTerm, clk)

\* the part of s before the first character of the set cs
BeforeAny(s, cs) ==
    LET i == FirstIndex(Len(s), LAMBDA j : CharAt(s, j) \in cs)
    IN IF i = 0 THEN s ELSE SubSeq(s, 1, i - 1)

\* s without prefix p
WithoutPrefix(s, p) == IF StartsWith(s, p) THEN SubSeq(s, Len(p) + 1, Len(s)) ELSE s

\* the host name that new URL(url) gives for an http or https URL, "" when the
\* constructor throws: the authority ends at "/", "?" or "#", the user information
\* ends at its last "@", the port starts at ":", and the host is put in lower case
UrlHostname(url) ==
    LET rest == IF StartsWith(url, "https://") THEN WithoutPrefix(url, "https://")
                ELSE IF StartsWith(url, "http://") THEN WithoutPrefix(url, "http://")
                ELSE ""
        authority == BeforeAny(rest, {"/", "?", "#"})
        at == LastIndexOf(authority, "@")
        host == BeforeAny(SubSeq(authority, at + 1, Len(authority)), {":"})
    IN IF host = "" \/ \E i \in 1..Len(host) : CharAt(host, i) \in {" ", "<", ">", "^", "|"}
       THEN "" ELSE ToLowerCase(host)

\* getDomainFromUrl; null is ""
getDomainFromUrl(url) ==
    LET full == IF StartsWith(url, "http") THEN url ELSE "http://" \o url
        hostname == UrlHostname(full)
        \* the fallback of the catch clause
        stripped == WithoutPrefix(WithoutPrefix(WithoutPrefix(url, "https://"), "http://"), "www.")
        fallback == BeforeAny(stripped, {"/", "?", ":"})
    IN IF url = "" THEN ""
       ELSE IF hostname # "" THEN WithoutPrefix(hostname, "www.")
       ELSE IF Includes(fallback, ".") THEN fallback
       ELSE ""

domainMemo ==
    [url \in {a.url : a \in WebsiteAnswers} \cup {c.email : c \in ContactPool}
        |-> getDomainFromUrl(url)] @@ << >>
DomainOf(url) == IF url \in DOMAIN domainMemo THEN domainMemo[url] ELSE getDomainFromUrl(url)

\* s.split('; ')
RECURSIVE SplitOnSemicolon(_)
SplitOnSemicolon(s) ==
    IF ~Includes(s, "; ") THEN <<s>>
    ELSE <<SubSeq(s, 1, IndexOf(s, "; ") - 1)>>
            \o SplitOnSemicolon(SubSeq(s, IndexOf(s, "; ") + 2, Len(s)))

\* the concatenation of a sequence of sequences
RECURSIVE Flatten(_)
Flatten(seqs) == IF Len(seqs) = 0 THEN << >> ELSE seqs[1] \o Flatten(Tail(seqs))

\* a comparator that looks at the number of emails alone
MoreEmailsFirst(a, b) == Len(a.emails) > Len(b.emails)

\* the comparator of the sort of allResults: domain searches first, then the results
\* with more emails
Before002(a, b) ==
    LET aIsDomain == Includes(a.source, "_domain")
        bIsDomain == Includes(b.source, "_domain")
    IN IF aIsDomain # bIsDomain THEN aIsDomain ELSE Len(a.emails) > Len(b.emails)

\* the LinkedIn links of the results that have one
Linkedins002(linked) ==
    Unique(Flatten([i \in 1..Len(linked) |-> SplitOnSemicolon(linked[i].linkedin)]))

\* the first domain of each result that has one
FinalDomains002(withDomain) ==
    Unique([i \in 1..Len(withDomain) |-> SplitOnSemicolon(withDomain[i].domain)[1]])

\* the contacts of the sorted results, one per address, sorted by the rank of the title
MergedEmails002(sorted) ==
    SortByTitle(AddWithoutDuplicates(SelectSeq(
        TaggedEmails([i \in 1..Len(sorted) |->
            [ source |-> IF sorted[i].source # "" THEN sorted[i].source
                         ELSE "unknown_source",
              emails |-> sorted[i].emails ]]),
        LAMBDA e : e.email # "")))

\* whether the domain of the address of contact e is one of the final domains
MatchesFinalDomain(e, emailDomain, finalDomains) ==
    /\ emailDomain # ""
    /\ \E i \in 1..Len(finalDomains) : LowerOf(finalDomains[i]) = LowerOf(emailDomain)

\* the merged result of part_002 from its parts
Merged002(sorted, linkedins, finalDomains, sized, sortedEmails, clk) ==
    [ linkedin |-> IF Len(linkedins) > 0 THEN Join(linkedins, "; ") ELSE "N/A",
      domain |-> IF Len(finalDomains) > 0 THEN finalDomains[1] ELSE "N/A",
      allDomains |-> finalDomains,
      size |-> IF Len(sized) > 0 THEN sized[1].size ELSE "N/A",
      emails |-> sortedEmails,
      matchesFinalDomain |->
        [i \in 1..Len(sortedEmails) |->
            MatchesFinalDomain(sortedEmails[i], DomainOf(sortedEmails[i].email), finalDomains)],
      timestamp |-> clk,
      source |-> "merged",
      sourcesWithEmails |-> Len(SelectSeq(sorted, LAMBDA r : Len(r.emails) > 0)) ]

\* the merge of the sorted results
MergeSorted002(sorted, clk) ==
    Merged002(sorted,
        Linkedins002(SelectSeq(sorted,
            LAMBDA r : r.linkedin \notin {"", "N/A", "Excluded", "Error"})),
        FinalDomains002(SelectSeq(sorted, LAMBDA r : r.domain \notin {"", "N/A"})),
        SelectSeq(sorted, LAMBDA r : r.size \notin {"", "N/A"}),
        MergedEmails002(sorted), clk)

\* the merge of getCompanyInfo of part_002; an element of allResults is a result
MergeResults002(allResults, clk) == MergeSorted002(StableSort(allResults, Before002), clk)

\* a call of getWebsiteUrlFromGoogle for name, and a call of getCompanyInfoWithSource
\* with searchTerm and searchType, by the strategy task ("primary" or "parent")
Search002(task, name) == [op |-> "search", task |-> task, searchType |-> "", term |-> name]
Lookup002(task, searchType, searchTerm) ==
    [op |-> "lookup", task |-> task, searchType |-> searchType, term |-> searchTerm]

\* one search strategy of part_002 after the website search gave found, domain being
\* getDomainFromUrl of its URL
SearchTaskWith(name, source, fallback, found, domain, clk) ==
    IF found.threw
    THEN [ pushed |-> FALSE, lookups |-> << >>,
           result |-> Result002("N/A", "N/A", "", "", clk) ]
    ELSE IF found.url # "" /\ domain # ""
    THEN [ pushed |-> TRUE, lookups |-> <<Lookup002(source, "domain", domain)>>,
           result |-> getCompanyInfoWithSource002(domain, "domain", source \o "_google_domain", clk) ]
    ELSE IF fallback
    THEN [ pushed |-> TRUE, lookups |-> <<Lookup002(source, "company", name)>>,
           result |-> getCompanyInfoWithSource002(name, "company",
                                                  "primary_company_name_fallback", clk) ]
    ELSE [ pushed |-> TRUE, lookups |-> << >>,
           result |-> Result002("N/A", "N/A", "parent_company_no_google_result", "", clk) ]

\* one search strategy of part_002: the website search for name, then the client by
\* domain, or by name when fallback is set.  found is the answer of the website
\* search: it threw, or it gave url ("" for none).  pushed says whether the strategy
\* gave a result.
SearchTask(name, source, fallback, found, clk) ==
    SearchTaskWith(name, source, fallback, found, DomainOf(found.url), clk)

\* the loop over the tasks ends at the first task that throws
TaskResultsUntilThrow(primaryTask, primary, parentTask, parent) ==
    IF primaryTask /\ ~primary.pushed THEN << >>
    ELSE (IF primaryTask THEN <<primary.result>> ELSE << >>)
            \o (IF parentTask /\ parent.pushed THEN <<parent.result>> ELSE << >>)

\* the results of the tasks that ran and gave one
TaskResults(primaryTask, primary, parentTask, parent) ==
    (IF primaryTask /\ primary.pushed THEN <<primary.result>> ELSE << >>)
        \o (IF parentTask /\ parent.pushed THEN <<parent.result>> ELSE << >>)

\* getCompanyInfo of part_002 once it is known which tasks run
RunTasks002(primaryCompanyName, primaryTask, parsedParentCompany, parentTask, founds, clk) ==
    [ result |->
        MergeResults002(
            TaskResults(primaryTask,
                        SearchTask(primaryCompanyName, "primary", TRUE, founds[1], clk),
                        parentTask,
                        SearchTask(parsedParentCompany, "parent", FALSE,
                                   founds[IF primaryTask THEN 2 ELSE 1], clk)),
            clk),
      searches |-> (IF primaryTask THEN <<primaryCompanyName>> ELSE << >>)
                     \o (IF parentTask THEN <<parsedParentCompany>> ELSE << >>),
      answers |-> (IF primaryTask THEN <<founds[1]>> ELSE << >>)
                    \o (IF parentTask THEN <<founds[IF primaryTask THEN 2 ELSE 1]>>
                                      ELSE << >>),
      calls |->
        (IF primaryTask
         THEN <<Search002("primary", primaryCompanyName)>>
                \o SearchTask(primaryCompanyName, "primary", TRUE, founds[1], clk).lookups
         ELSE << >>)
        \o (IF parentTask
            THEN <<Search002("parent", parsedParentCompany)>>
                    \o SearchTask(parsedParentCompany, "parent", FALSE,
                                  founds[IF primaryTask THEN 2 ELSE 1], clk).lookups
            ELSE << >>) ]

\* getCompanyInfo of part_002 on the parsed names
Orchestrate002(primaryCompanyName, parsedParentCompany, founds, clk) ==
    RunTasks002(primaryCompanyName,
                primaryCompanyName # "" /\ ~StartsWith(primaryCompanyName, "Excluded"),
                parsedParentCompany,
                /\ parsedParentCompany # ""
                /\ parsedParentCompany # primaryCompanyName
                /\ ~StartsWith(parsedParentCompany, "Excluded"),
                founds, clk)

\* getCompanyInfo of part_002: the merged result, the names given to the website
\* search and the answers that it gave.  founds are the answers of the website search, in order; "" is no
\* parent company.
getCompanyInfo002(rawCompanyName, parentCompanyName, founds, clk) ==
    Orchestrate002(ParsedName002Of(rawCompanyName),
                   IF parentCompanyName # "" THEN ParsedName002Of(parentCompanyName) ELSE "",
                   founds, clk)

(***************************************************************************)
(* State                                                                   *)
(***************************************************************************)
(***************************************************************************)
(* Actor.main: the crawl loop of part_001 and of part_002                  *)
(*                                                                         *)
(* The crawl loop is modelled with the cache switched off, as the source   *)
(* ships it: a lookup then neither reads nor writes companyCache, so the   *)
(* enrichment of a listing depends on the job card and on the answers of   *)
(* the APIs only.  TEST_MODE is a constant of part_001, which is false,    *)
(* and an input of part_002.                                               *)
(***************************************************************************)
EXPORT_BATCH_SIZE == 10
TEST_JOB_LIMIT == 5

\* the values of the input testJobLimit
TestJobLimits == {1, 3, TEST_JOB_LIMIT}

\* the pages that the crawler fetches at most, and the listings whose detail fetch
\* fails at most
MaxPages == 3
MaxFailures == 1

FoundUrl == [NoUrl EXCEPT !.url = "https://www.acme.com/about"]
SearchThrew == [NoUrl EXCEPT !.threw = TRUE]

\* a job card of a result page, with the parent company that its detail page names,
\* the answers resps of the enrichment API and the answers founds of the website
\* search to the requests made for it, in order
Card(url, rawCompany, parentCompany, resps, founds) ==
    [ url |-> url, rawCompany |-> rawCompany, parentCompany |-> parentCompany,
      resps |-> resps, founds |-> founds ]

\* the first page of the site: companies with and without a parent, a card without a
\* company, a card of an excluded company, a card that the database holds already
Page1 ==
    << Card("job01", "Acme Bistro", "", <<RespPrimary>>, <<FoundUrl, NoUrl>>),
       Card("job02", "Blue Hill Inc.", "Acme Group", <<RespPrimary, RespUpper>>,
            <<FoundUrl, NoUrl, FoundUrl>>),
       Card("job03", "", "", <<RespPrimary>>, <<NoUrl, NoUrl>>),
       Card("job04", "Acme Bistro", "Compass Group", <<Resp500, RespPrimary>>,
            <<NoUrl, SearchThrew, NoUrl>>),
       Card("job05", "Chartwells", "", <<RespPrimary>>, <<FoundUrl, NoUrl>>),
       Card("job06", "Acme Bistro", "", <<RespPrimary>>, <<FoundUrl, NoUrl>>),
       Card("job07", "Acme Bistro", "", <<RespPrimary>>, <<FoundUrl, NoUrl>>),
       Card("job08", "Acme Bistro", "", <<RespPrimary>>, <<FoundUrl, NoUrl>>),
       Card("job09", "Acme Bistro", "", <<RespPrimary>>, <<FoundUrl, NoUrl>>),
       Card("job10", "Acme Bistro", "", <<RespPrimary>>, <<FoundUrl, NoUrl>>),
       Card("job11", "Acme Bistro", "", <<RespPrimary>>, <<FoundUrl, NoUrl>>),
       Card("job00", "Acme Bistro", "", <<RespPrimary>>, <<FoundUrl, NoUrl>>) >>

\* the second page: for its first card the website search for the parent throws
Page2 ==
    << Card("job12", "Blue Hill Inc.", "Acme Group", <<Resp500, Resp500>>,
            <<SearchThrew, NoUrl, NoUrl>>),
       Card("job13", "Acme Bistro", "", <<RespPrimary>>, <<NoUrl, NoUrl>>) >>

Pages == <<Page1, Page2>>
PageCards(p) == IF p <= Len(Pages) THEN Pages[p] ELSE << >>
CrawlCards == Range(Page1) \cup Range(Page2)

\* the number in the "About N jobs" text of the first page
TotalJobs == Len(Page1) + Len(Page2)

\* the job URLs that loadExistingJobUrlsFromDB gives
ExistingUrls == {"job00"}

NullStore == [isNull |-> TRUE, entries |-> << >>, origin |-> "external"]

\* the outcome of the enrichment of a listing in the crawl loop: the contact
\* information, the requests of the enrichment client and the names given to the
\* website search; threw says that an exception ended it
Enriched(emails, linkedin, domain, source, reqs, searches) ==
    [ threw |-> FALSE, emails |-> emails, linkedin |-> linkedin, domain |-> domain,
      source |-> source, reqs |-> reqs, searches |-> searches ]
EnrichThrew(searches) ==
    [Enriched(<< >>, "", "", "", << >>, searches) EXCEPT !.threw = TRUE]

\* a || b || 'N/A'
FirstTruthy(a, b) == IF a # "" THEN a ELSE IF b # "" THEN b ELSE "N/A"

\* the emailMap of the crawl loop of part_001: the contacts of the parent, then those
\* of the company, one per lower-cased address, sorted by the rank of the title
CombinedEmails(parentEmails, companyEmails) ==
    SortByTitle(AddWithoutDuplicates(SelectSeq(
        TaggedEmails(<< [source |-> "parent_company", emails |-> parentEmails],
                        [source |-> "subsidiary_company", emails |-> companyEmails] >>),
        LAMBDA e : e.email # "")))

\* the contactInfo of part_001 for a listing with a parent company, from the lookup p
\* of the parent and the lookup c of the company
Combined001(p, c) ==
    Enriched(CombinedEmails(p.ret.emails, c.ret.emails),
             FirstTruthy(p.ret.linkedin, c.ret.linkedin),
             FirstTruthy(p.ret.domain, c.ret.domain),
             IF Len(p.ret.emails) > 0 THEN "parent_company" ELSE "subsidiary_company",
             p.reqs \o c.reqs, << >>)

\* the lookup of the company after the lookup p of the parent
WithSubsidiary(company, p) ==
    Combined001(p, LookupRun(company, "", "subsidiary_company", p.resps, TRUE, p.cache,
                             p.store, InitClock, TRUE))

FromOrchestrator001(r) ==
    Enriched(r.result.emails, r.result.linkedin, r.result.domain, r.result.source,
             r.reqs, << >>)

\* the enrichment of a listing in the crawl loop of part_001: with a parent company
\* two lookups by name, without one the orchestrator
Enrich001(card, company) ==
    IF card.parentCompany # ""
    THEN WithSubsidiary(company,
            LookupRun(card.parentCompany, "", "parent_company", card.resps, TRUE, << >>,
                      NullStore, InitClock, TRUE))
    ELSE FromOrchestrator001(
            getCompanyInfo(company, "", card.resps, TRUE, << >>, NullStore, InitClock, TRUE))

FromOrchestrator002(searches, r) ==
    Enriched(r.result.emails, r.result.linkedin, r.result.domain, r.result.source,
             << >>, searches \o r.searches)

\* the enrichment of a listing in the crawl loop of part_002: the website search for
\* the parent company as the detail page names it, then the orchestrator
Enrich002(card, company) ==
    IF card.parentCompany # "" /\ card.founds[1].threw
    THEN EnrichThrew(<<card.parentCompany>>)
    ELSE FromOrchestrator002(
            IF card.parentCompany # "" THEN <<card.parentCompany>> ELSE << >>,
            getCompanyInfo002(company, card.parentCompany,
                IF card.parentCompany # "" THEN Tail(card.founds) ELSE card.founds,
                InitClock))

\* what the crawl loop computes for a card: the company name of the listing and its
\* enrichment, in each script
CardOutcome(card, company001, company002) ==
    [ company001 |-> company001, enrich001 |-> Enrich001(card, company001),
      company002 |-> company002, enrich002 |-> Enrich002(card, company002) ]

cardMemo ==
    [card \in CrawlCards |->
        CardOutcome(card, ParsedNameOf(card.rawCompany), ParsedName002Of(card.rawCompany))]
    @@ << >>

\* the cards of a page, each with what the crawl loop computes for it
Outcomes(cards) == [i \in 1..Len(cards) |-> [card |-> cards[i], o |-> cardMemo[cards[i]]]]

\* the listing that the card loop pushes for a card with outcome o, with the parent
\* company of its detail page and the outcome of its enrichment
ListingOf(card, o, variant) ==
    [ url |-> card.url,
      company |-> IF variant = "part_001" THEN o.company001 ELSE o.company002,
      parentCompany |-> card.parentCompany,
      enrichment |-> IF variant = "part_001" THEN o.enrich001 ELSE o.enrich002 ]

\* the cards that the card loop of part_002 skips: jobs that the database holds and
\* jobs of excluded companies.  The card loop of part_001 tests the URL against an
\* empty set and skips no company.
IsSkippedCard(card, o, variant) ==
    /\ variant = "part_002"
    /\ \/ card.url \in ExistingUrls
       \/ StartsWith(o.company002, "Excluded")

\* the listings of a page
CardLoop(withOutcome, variant) ==
    LET kept == SelectSeq(withOutcome, LAMBDA x : ~IsSkippedCard(x.card, x.o, variant))
    IN [i \in 1..Len(kept) |-> ListingOf(kept[i].card, kept[i].o, variant)]
SkippedCards(withOutcome, variant) ==
    Len(SelectSeq(withOutcome, LAMBDA x : IsSkippedCard(x.card, x.o, variant)))

\* the card loop of a page over its first cardsToProcess cards: the number of job
\* cards, the listings, the cards skipped
PageOutcome(withOutcome, cardsToProcess, variant) ==
    [ cards |-> Len(withOutcome),
      listings |-> CardLoop(SubSeq(withOutcome, 1, cardsToProcess), variant),
      skipped |-> SkippedCards(SubSeq(withOutcome, 1, cardsToProcess), variant) ]

pageMemo ==
    [k \in {<<variant, page, n>> \in {"part_001", "part_002"} \X (1..MaxPages) \X (0..Len(Page1)) :
                n <= Len(PageCards(page))} |->
        PageOutcome(Outcomes(PageCards(k[2])), k[3], k[1])] @@ << >>

\* all the cards of the page, whatever the mode is
CardsToProcessAll(testMode, testJobLimit, processedCount, jobCards) == jobCards

\* cardsToProcess: in test mode the cards that the limit leaves, all the cards
\* otherwise
CardsToProcess(testMode, testJobLimit, processedCount, jobCards) ==
    IF testMode
    THEN IF testJobLimit - processedCount < jobCards
         THEN testJobLimit - processedCount ELSE jobCards
    ELSE jobCards

\* the number of rounds of for (let i = 0; i < cardsToProcess; i++)
Rounds(cardsToProcess) == IF cardsToProcess < 0 THEN 0 ELSE cardsToProcess

\* the jobDetail of a processed listing
JobDetail(l, e) ==
    [ url |-> l.url, company |-> l.company,
      parentCompany |-> OrNA(l.parentCompany),
      emails |-> e.emails, domain |-> OrNA(e.domain), dataSource |-> e.source ]

\* handleBatchExport: the batch is handed to exportToPostgres when it holds
\* EXPORT_BATCH_SIZE jobs; exportOk says whether exportToPostgres succeeds
handleBatchExport(c, exportOk) ==
    IF Len(c.exportBatch) >= EXPORT_BATCH_SIZE
    THEN IF exportOk
         THEN [c EXCEPT !.exported = c.exported \o c.exportBatch, !.exportBatch = << >>]
         ELSE [c EXCEPT !.exportFailed = TRUE]
    ELSE c

\* main is "idle" before the run, "racing" while Actor.main awaits the crawler or the
\* run budget, "timed_out" or "completed" after the race, "final_exporting" while the
\* final export awaits the database (inserting are the jobs that it handed to the
\* transaction), "final_exported" after the
\* final export and "exited" when the process has ended; queued is the number of the
\* page in the request queue (0 for none) and offset the offset of its URL, page the
\* page that the handler got last, continues whether that handler chose to queue the
\* next page (the model queues no page after page MaxPages)
NoCrawl ==
    [ variant |-> "none", exportData |-> FALSE, testMode |-> FALSE,
      testJobLimit |-> TEST_JOB_LIMIT, main |-> "idle",
      queued |-> 0, offset |-> 0, continues |-> FALSE,
      page |-> 0, handling |-> FALSE, cards |-> 0, listings |-> << >>,
      next |-> 1,
      inflight |-> FALSE, jobDetailsArray |-> << >>,
      processedCount |-> 0, attemptedCount |-> 0, skipped |-> 0,
      saved |-> [processedCount |-> 0, attemptedCount |-> 0],
      exportBatch |-> << >>, inserting |-> << >>, exported |-> << >>,
      exportFailed |-> FALSE,
      processed |-> {}, failed |-> {}, timedOut |-> FALSE, startedLate |-> FALSE,
      lastReqs |-> << >>, lastSearches |-> << >> ]

(***************************************************************************)
(* The Google Jobs search of part_000: searchJobs and searchAllJobs        *)
(***************************************************************************)
\* the values of maxPages given to searchAllJobs are 0..MaxSearchPages, and a page
\* of the API has MaxJobs jobs at most
MaxSearchPages == 3
MaxJobs == 2

\* an answer of the API to a request of searchJobs: fetch rejects ("throws") or
\* resolves; the body is JSON text of an object ("json"), JSON text of null ("null")
\* or no JSON text ("not_json"); ok is response.ok, jobs the length of data.jobs and
\* token data.pagination.next_page_token ("" when there is none)
JobsAnswer(fetch, body, ok, jobs, token) ==
    [ fetch |-> fetch, body |-> body, ok |-> ok, jobs |-> jobs, token |-> token ]
JobsAnswers ==
    { JobsAnswer("throws", "json", FALSE, 0, ""),
      JobsAnswer("resolves", "not_json", FALSE, 0, ""),
      JobsAnswer("resolves", "null", FALSE, 0, ""),
      JobsAnswer("resolves", "json", FALSE, 0, ""),
      JobsAnswer("resolves", "json", FALSE, 1, "tokA") }
    \cup { JobsAnswer("resolves", "json", TRUE, jobs, token) :
                jobs \in 0..MaxJobs, token \in {"", "tokA", "tokB"} }

\* what searchJobs returns, or the exception that it throws
JobsResult(jobs, hasMore, nextPageToken) ==
    [ threw |-> FALSE, jobs |-> jobs, hasMore |-> hasMore, nextPageToken |-> nextPageToken ]
NoJobs == JobsResult(0, FALSE, "")
JobsThrew == [NoJobs EXCEPT !.threw = TRUE]

\* the try block of searchJobs: fetch, response.json(), the test of response.ok
\* (which reads data.error) and the test of data.jobs
SearchJobsTry(answer) ==
    IF answer.fetch = "throws" \/ answer.body = "not_json" THEN JobsThrew
    ELSE IF answer.body = "null" THEN JobsThrew
    ELSE IF ~answer.ok THEN NoJobs
    ELSE IF answer.jobs = 0 THEN NoJobs
    ELSE JobsResult(answer.jobs, answer.token # "", answer.token)

\* searchJobs: without SEARCH_API_KEY no request is made; the catch clause turns
\* every exception of the try block into the empty result
searchJobs(apiKey, answer) ==
    IF ~apiKey THEN NoJobs
    ELSE IF SearchJobsTry(answer).threw THEN NoJobs ELSE SearchJobsTry(answer)

\* status is "none", "running" (searchAllJobs is in its loop) or "returned";
\* currentPage, nextPageToken and allJobs (its length) are the variables of
\* searchAllJobs, requests counts the requests sent, last is the last result of
\* searchJobs and answer the answer that it got
NoJobSearch ==
    [ status |-> "none", apiKey |-> FALSE, maxPages |-> 0, currentPage |-> 0,
      nextPageToken |-> "", allJobs |-> 0, requests |-> 0, last |-> NoJobs,
      answer |-> JobsAnswer("throws", "json", FALSE, 0, "") ]

\* one round of the do-while loop of searchAllJobs with result of searchJobs
SearchedPage(js, result) ==
    IF result.threw THEN [js EXCEPT !.status = "threw", !.last = result]
    ELSE IF result.jobs = 0
    THEN [js EXCEPT !.status = "returned", !.currentPage = js.currentPage + 1,
                    !.last = result]
    ELSE [js EXCEPT !.currentPage = js.currentPage + 1,
                    !.allJobs = js.allJobs + result.jobs,
                    !.nextPageToken = result.nextPageToken,
                    !.last = result,
                    !.status = IF result.nextPageToken # "" /\ js.currentPage + 1 < js.maxPages
                               THEN "running" ELSE "returned"]

VARIABLES
    DISABLE_COMPANY_CACHE,  \* configuration switch of the cache
    clock,                  \* the current day
    companyCache,           \* the in-memory Map, in insertion order
    store,                  \* the value under 'company-cache-data' of the KeyValueStore
    call,                   \* the call of getCompanyInfoWithSource in progress or just returned
    ticks,                  \* how often the clock advanced
    steps,                  \* how many operations were started
    listing,                \* the listing that getCompanyInfo ran for last, with its outcome
    merging,                \* the strategy results given to the merge step, and its output
    crawl,                  \* the run of Actor.main: the crawler, its counters and the export batch
    scoring,                \* the titles given to getTitlePriority last, with their ranks
    emailScoring,           \* the raw contacts given to processEmails last, with their scores
    parsing,                \* the raw text given to parseCompanyAndLocation last, with the name
    jobSearch               \* the run of searchAllJobs in progress or just returned

vars == <<DISABLE_COMPANY_CACHE, clock, companyCache, store, call, ticks, steps, listing, merging,
          crawl, scoring, emailScoring, parsing, jobSearch>>

\* status is "idle", "awaiting" (a request is out) or "returned"; companyName,
\* locationName and source are the arguments of the caller, cur those of the running
\* (possibly recursive) call; reqs are the requests sent, levels the outcome of each
\* nested call (with the HTTP status of its response, 0 if there was none), waits the
\* cool-downs taken
NoCall ==
    [ status |-> "idle", companyName |-> "", locationName |-> "", source |-> "",
      cur |-> [companyName |-> "", locationName |-> "", source |-> ""],
      ret |-> EmptyResult("N/A", "", 0), threw |-> FALSE,
      reqs |-> << >>, waits |-> << >>, levels |-> << >> ]

\* variant is "none" before the first listing, then "part_001" or "part_002"; count is
\* the number of listings processed; parsed is
\* the name parsed from rawCompanyName, reqs are the requests of the enrichment client,
\* searches the names given to the website search, answers what the search gave for
\* each, contacts the merged contact list
NoListing ==
    [ variant |-> "none", rawCompanyName |-> "", rawLocation |-> "", parentCompanyName |-> "",
      parsed |-> "", reqs |-> << >>, searches |-> << >>, answers |-> << >>,
      calls |-> << >>, contacts |-> << >>,
      linkedin |-> "N/A", domain |-> "N/A", count |-> 0 ]

\* status is "none", "input" (titles are given), "scored" (ranks are the ranks of the
\* titles) or "sorted" (sorted are the titles of the contacts in the order of the
\* sort, too)
NoScored == [status |-> "none", titles |-> << >>, ranks |-> << >>, sorted |-> << >>]

\* status is "none", "input" (emails are given) or "scored": scoresX2 are twice the
\* scores of calculateEmailScore for the emails, processed is what processEmails gives
NoEmailScoring ==
    [status |-> "none", emails |-> << >>, scoresX2 |-> << >>, processed |-> << >>]

\* status is "none", "input" (raw is given), "parsed" (name is the name parsed from
\* raw) or "reparsed" (again is the name parsed from name); variant is the script
NoParsing == [status |-> "none", variant |-> "none", raw |-> "", name |-> "", again |-> ""]

\* status is "input" or "merged", variant the script whose merge ran
NoMerging == [status |-> "input", variant |-> "none", input |-> << >>, contacts |-> << >>]

Init ==
    /\ listing = NoListing
    /\ merging = NoMerging
    /\ emailScoring = NoEmailScoring
    /\ jobSearch = NoJobSearch
    /\ parsing = NoParsing
    /\ crawl = NoCrawl
    /\ scoring = NoScored
    /\ DISABLE_COMPANY_CACHE \in BOOLEAN
    /\ clock = InitClock
    /\ companyCache = << >>
    /\ store \in InitialStores
    /\ call = NoCall
    /\ ticks = 0
    /\ steps = 0

\* the call record after the head of a (nested) call ran
AfterHead(c, cur, h) ==
    IF h.done
    THEN [c EXCEPT !.status = "returned", !.cur = cur, !.ret = h.ret,
                   !.levels = Append(c.levels, h.level)]
    ELSE [c EXCEPT !.status = "awaiting", !.cur = cur, !.reqs = Append(c.reqs, h.request)]

\* the call starts with the outcome h of its head
Started(companyName, locationName, source, h) ==
    /\ companyCache' = h.cache
    /\ call' = AfterHead([NoCall EXCEPT !.companyName = companyName,
                             !.locationName = locationName, !.source = source],
                         [companyName |-> companyName, locationName |-> locationName,
                          source |-> source], h)

\* a caller calls getCompanyInfoWithSource; it runs up to its request or its early return
Call(companyName, locationName, source) ==
    /\ call.status = "idle"
    /\ steps < MaxSteps
    /\ Started(companyName, locationName, source,
               LookupHead(companyName, source, companyCache, clock, DISABLE_COMPANY_CACHE))
    /\ steps' = steps + 1
    /\ UNCHANGED <<jobSearch, emailScoring, parsing, scoring, crawl, DISABLE_COMPANY_CACHE, clock, store, ticks, listing, merging>>

\* the cool-downs taken after the answer resp
Waited(resp) ==
    IF CoolDownMs(resp) > 0 THEN Append(call.waits, CoolDownMs(resp)) ELSE call.waits

\* the try block ran to its end with outcome t
RespondFetched(resp, t) ==
    /\ companyCache' = t.cache
    /\ store' = t.store
    /\ call' = [call EXCEPT !.status = "returned", !.ret = t.ret,
                    !.levels = Append(call.levels,
                        Level(call.cur.companyName, call.cur.source, "fetched", resp.status))]

\* the catch clause calls the function again for the location; h is the outcome of
\* the head of that call
RespondRetry(resp, h) ==
    /\ companyCache' = h.cache
    /\ call' = AfterHead([call EXCEPT !.waits = Waited(resp),
                             !.levels = Append(call.levels,
                                Level(call.cur.companyName, call.cur.source, "error",
                                      resp.status))],
                         [companyName |-> call.cur.locationName, locationName |-> "",
                          source |-> "location"], h)
    /\ UNCHANGED store

\* the request is answered (or times out): the rest of the try block, or the catch clause
Respond(resp, kvOk) ==
    /\ call.status = "awaiting"
    /\ IF ~FetchThrows(resp)
       THEN RespondFetched(resp,
                LookupTry(call.cur.companyName, call.cur.source, resp, kvOk, companyCache,
                          store, clock, DISABLE_COMPANY_CACHE))
       ELSE IF ~Caught(resp)
       THEN /\ call' = [call EXCEPT !.status = "returned", !.threw = TRUE,
                            !.waits = Waited(resp),
                            !.levels = Append(call.levels,
                                Level(call.cur.companyName, call.cur.source, "error",
                                      resp.status))]
            /\ UNCHANGED <<companyCache, store>>
       ELSE IF ShouldRetry(call.cur.companyName, call.cur.locationName, call.cur.source)
       THEN RespondRetry(resp,
                LookupHead(call.cur.locationName, "location", companyCache, clock,
                           DISABLE_COMPANY_CACHE))
       ELSE /\ call' = [call EXCEPT !.status = "returned", !.waits = Waited(resp),
                            !.ret = EmptyResult("Error", call.cur.source, clock),
                            !.levels = Append(call.levels,
                                Level(call.cur.companyName, call.cur.source, "error",
                                      resp.status))]
            /\ UNCHANGED <<companyCache, store>>
    /\ UNCHANGED <<jobSearch, emailScoring, parsing, scoring, crawl, DISABLE_COMPANY_CACHE, clock, ticks, steps, listing, merging>>

\* the caller takes the result
Return ==
    /\ call.status = "returned"
    /\ call' = NoCall
    /\ UNCHANGED <<jobSearch, emailScoring, parsing, scoring, crawl, DISABLE_COMPANY_CACHE, clock, companyCache, store, ticks, steps, listing, merging>>

LoadCache(kvOk) ==
    /\ call.status = "idle"
    /\ steps < MaxSteps
    /\ companyCache' = loadCache(DISABLE_COMPANY_CACHE, companyCache, store, kvOk, clock)
    /\ steps' = steps + 1
    /\ UNCHANGED <<jobSearch, emailScoring, parsing, scoring, crawl, DISABLE_COMPANY_CACHE, clock, store, call, ticks, listing, merging>>

SaveCache(kvOk) ==
    /\ call.status = "idle"
    /\ steps < MaxSteps
    /\ store' = saveCache(DISABLE_COMPANY_CACHE, companyCache, store, kvOk)
    /\ steps' = steps + 1
    /\ UNCHANGED <<jobSearch, emailScoring, parsing, scoring, crawl, DISABLE_COMPANY_CACHE, clock, companyCache, call, ticks, listing, merging>>

\* clearCache: the Map is cleared before the store is opened
ClearCache(kvOk) ==
    /\ call.status = "idle"
    /\ steps < MaxSteps
    /\ companyCache' = << >>
    /\ store' = IF kvOk THEN [isNull |-> TRUE, entries |-> << >>, origin |-> "cleared"] ELSE store
    /\ steps' = steps + 1
    /\ UNCHANGED <<jobSearch, emailScoring, parsing, scoring, crawl, DISABLE_COMPANY_CACHE, clock, call, ticks, listing, merging>>

\* time passes between two operations
Tick(d) ==
    /\ call.status = "idle"
    /\ ticks < MaxTicks
    /\ clock' = clock + d
    /\ ticks' = ticks + 1
    /\ UNCHANGED <<jobSearch, emailScoring, parsing, scoring, crawl, DISABLE_COMPANY_CACHE, companyCache, store, call, steps, listing, merging>>

Next ==
    \/ \E companyName \in LookupNames, locationName \in LookupLocations,
          source \in LookupSources : Call(companyName, locationName, source)
    \/ \E resp \in Responses, kvOk \in BOOLEAN : Respond(resp, kvOk)
    \/ Return
    \/ \E kvOk \in BOOLEAN : LoadCache(kvOk)
    \/ \E kvOk \in BOOLEAN : SaveCache(kvOk)
    \/ \E kvOk \in BOOLEAN : ClearCache(kvOk)
    \/ \E d \in TickDays : Tick(d)

Spec == Init /\ [][Next]_vars

(***************************************************************************)
(* The orchestrators, one listing after the other                          *)
(***************************************************************************)
\* the listing is processed with outcome r of getCompanyInfo of part_001
Processed001(rawCompanyName, rawLocation, r) ==
    /\ listing' = [ variant |-> "part_001", rawCompanyName |-> rawCompanyName,
                    rawLocation |-> rawLocation, parentCompanyName |-> "",
                    parsed |-> ParsedNameOf(rawCompanyName), reqs |-> r.reqs,
                    searches |-> << >>, answers |-> << >>, calls |-> << >>,
                    contacts |-> r.result.emails,
                    linkedin |-> r.result.linkedin, domain |-> r.result.domain,
                    count |-> listing.count + 1 ]
    /\ companyCache' = r.cache
    /\ store' = r.store

\* getCompanyInfo of part_001 for a listing
GetCompanyInfo(rawCompanyName, rawLocation, resps, kvOk) ==
    /\ steps < MaxSteps
    /\ listing.count < MaxListings
    /\ Processed001(rawCompanyName, rawLocation,
            getCompanyInfo(rawCompanyName, rawLocation, resps, kvOk, companyCache, store,
                           clock, DISABLE_COMPANY_CACHE))
    /\ steps' = steps + 1
    /\ UNCHANGED <<jobSearch, emailScoring, parsing, scoring, crawl, DISABLE_COMPANY_CACHE, clock, call, ticks, merging>>

\* the listing is processed with outcome r of getCompanyInfo of part_002
Processed002(rawCompanyName, parentCompanyName, r) ==
    listing' = [ variant |-> "part_002", rawCompanyName |-> rawCompanyName,
                 rawLocation |-> "", parentCompanyName |-> parentCompanyName,
                 parsed |-> ParsedName002Of(rawCompanyName), reqs |-> << >>,
                 searches |-> r.searches, answers |-> r.answers, calls |-> r.calls,
                 contacts |-> r.result.emails,
                 linkedin |-> r.result.linkedin, domain |-> r.result.domain,
                 count |-> listing.count + 1 ]

\* getCompanyInfo of part_002 for a listing
GetCompanyInfo002(rawCompanyName, parentCompanyName, founds) ==
    /\ steps < MaxSteps
    /\ listing.count < MaxListings
    /\ Processed002(rawCompanyName, parentCompanyName,
            getCompanyInfo002(rawCompanyName, parentCompanyName, founds, clock))
    /\ steps' = steps + 1
    /\ UNCHANGED <<jobSearch, emailScoring, parsing, scoring, crawl, DISABLE_COMPANY_CACHE, clock, companyCache, store, call, ticks, merging>>

OrchNext ==
    \/ \E rawCompanyName \in RawCompanies, rawLocation \in RawLocations,
          resps \in OrchScripts, kvOk \in BOOLEAN :
            GetCompanyInfo(rawCompanyName, rawLocation, resps, kvOk)
    \/ \E rawCompanyName \in RawCompanies, parentCompanyName \in ParentCompanies,
          founds \in WebsiteScripts :
            GetCompanyInfo002(rawCompanyName, parentCompanyName, founds)
    \/ \E kvOk \in BOOLEAN : LoadCache(kvOk)

OrchSpec == Init /\ [][OrchNext]_vars

(***************************************************************************)
(* The merge step on its own, for every list of strategy results           *)
(***************************************************************************)
\* the allResults of part_001 for the contact lists of the strategies
Results001(input) ==
    [i \in 1..Len(input) |->
        [ source |-> IF i = 1 THEN "primary" ELSE "potential_" \o ToString(i - 2),
          data |-> [EmptyResult("N/A", "company", 0) EXCEPT !.emails = input[i]] ]]

\* the allResults of part_002: the first by company name, the others by domain
Results002(input) ==
    [i \in 1..Len(input) |->
        [ Result002("N/A", "acme.com",
                    IF i = 1 THEN "primary_company_name_fallback" ELSE "parent_google_domain",
                    "", 0) EXCEPT !.emails = input[i] ]]

MergeInit ==
    /\ Init
    /\ DISABLE_COMPANY_CACHE = TRUE /\ store.isNull

\* the strategies of a listing hand their results to the merge step
CollectResults(input) ==
    /\ merging.status = "merged" \/ merging = NoMerging
    /\ merging' = [NoMerging EXCEPT !.input = input]
    /\ UNCHANGED <<jobSearch, emailScoring, parsing, scoring, crawl, DISABLE_COMPANY_CACHE, clock, companyCache, store, call, ticks, steps, listing>>

\* the merge step of part_001
Merge001 ==
    /\ merging.status = "input"
    /\ merging' = [merging EXCEPT !.status = "merged", !.variant = "part_001",
                        !.contacts = MergeResults(Results001(merging.input), clock).emails]
    /\ UNCHANGED <<jobSearch, emailScoring, parsing, scoring, crawl, DISABLE_COMPANY_CACHE, clock, companyCache, store, call, ticks, steps, listing>>

\* the merge step of part_002
Merge002 ==
    /\ merging.status = "input"
    /\ merging' = [merging EXCEPT !.status = "merged", !.variant = "part_002",
                        !.contacts = MergeResults002(Results002(merging.input), clock).emails]
    /\ UNCHANGED <<jobSearch, emailScoring, parsing, scoring, crawl, DISABLE_COMPANY_CACHE, clock, companyCache, store, call, ticks, steps, listing>>

MergeNext ==
    \/ \E input \in MergeInputs : CollectResults(input)
    \/ Merge001
    \/ Merge002

MergeSpec == MergeInit /\ [][MergeNext]_vars

\* the request is answered within API_TIMEOUT_MS or the race with timeout() ends it,
\* and a caller that awaits the result takes it
FairSpec ==
    Spec /\ WF_vars(\E resp \in Responses, kvOk \in BOOLEAN : Respond(resp, kvOk))
         /\ WF_vars(Return)

(***************************************************************************)
(* Actor.main: the crawler, the run budget and the final export            *)
(***************************************************************************)
CrawlInit ==
    /\ listing = NoListing
    /\ merging = NoMerging
    /\ emailScoring = NoEmailScoring
    /\ jobSearch = NoJobSearch
    /\ parsing = NoParsing
    /\ scoring = NoScored
    /\ DISABLE_COMPANY_CACHE = TRUE
    /\ clock = InitClock
    /\ companyCache = << >>
    /\ store = NullStore
    /\ call = NoCall
    /\ ticks = 0
    /\ steps = 0
    /\ \E variant \in {"part_001", "part_002"}, exportData \in BOOLEAN,
          testMode \in BOOLEAN, testJobLimit \in TestJobLimits :
            /\ testMode => variant = "part_002"
            /\ ~testMode => testJobLimit = TEST_JOB_LIMIT
            /\ crawl = [NoCrawl EXCEPT !.variant = variant, !.exportData = exportData,
                                       !.testMode = testMode, !.testJobLimit = testJobLimit,
                                       !.main = "racing", !.queued = 1]

Running == crawl.main \notin {"idle", "exited"}

\* the handler has run the card loop with outcome p
StartedPage(p) ==
    crawl' =
        [crawl EXCEPT !.handling = TRUE, !.page = crawl.queued, !.queued = 0,
            !.cards = p.cards, !.listings = p.listings,
            !.skipped = crawl.skipped + p.skipped,
            !.next = 1, !.jobDetailsArray = << >>,
            !.processedCount = IF crawl.variant = "part_001"
                               THEN crawl.saved.processedCount ELSE crawl.processedCount]

\* the requestHandler starts for the queued page: the card loop.  The handler of
\* part_001 reads SCRAPE_STATE again, the handler of part_002 keeps the state object
\* of the run.
StartPage ==
    /\ Running /\ ~crawl.handling /\ crawl.queued # 0
    /\ StartedPage(pageMemo[<<crawl.variant, crawl.queued,
                               Rounds(CardsToProcess(crawl.testMode, crawl.testJobLimit,
                                                     crawl.processedCount,
                                                     Len(PageCards(crawl.queued))))>>])
    /\ UNCHANGED <<jobSearch, emailScoring, parsing, DISABLE_COMPANY_CACHE, clock, companyCache, store, call, ticks, steps,
                   listing, merging, scoring>>

\* the loop over the listings of the page takes the next listing; part_002 counts it
\* as attempted
StartListing ==
    /\ Running /\ crawl.handling /\ ~crawl.inflight
    /\ crawl.next <= Len(crawl.listings)
    /\ crawl' =
        [crawl EXCEPT !.inflight = TRUE,
            !.attemptedCount = IF crawl.variant = "part_002"
                               THEN crawl.attemptedCount + 1 ELSE crawl.attemptedCount,
            !.startedLate = crawl.startedLate \/ crawl.main # "racing"]
    /\ UNCHANGED <<jobSearch, emailScoring, parsing, DISABLE_COMPANY_CACHE, clock, companyCache, store, call, ticks, steps,
                   listing, merging, scoring>>

\* the failure of a listing ends the loop over the listings of the page
ListingFailedEndsLoop(c, l) ==
    [c EXCEPT !.inflight = FALSE, !.next = Len(c.listings) + 1,
              !.failed = c.failed \cup {l.url}]

\* the listing in progress failed: the answer of the detail page was not ok, or an
\* exception reached the catch clause of the listing
ListingFailed(c, l) ==
    [c EXCEPT !.inflight = FALSE, !.next = c.next + 1, !.failed = c.failed \cup {l.url}]

\* the listing in progress was enriched with outcome e
ListingEnriched(c, l, e) ==
    IF e.threw
    THEN [ListingFailed(c, l) EXCEPT !.lastReqs = e.reqs, !.lastSearches = e.searches]
    ELSE [c EXCEPT !.inflight = FALSE, !.next = c.next + 1,
             !.jobDetailsArray = Append(c.jobDetailsArray, JobDetail(l, e)),
             !.processedCount = c.processedCount + 1,
             !.processed = c.processed \cup {l.url},
             !.lastReqs = e.reqs, !.lastSearches = e.searches]

\* the rest of the loop body for the listing in progress; detail is the outcome of
\* the fetch of its detail page: "ok", "not_ok" (an error status) or "throws"
FinishListing(detail) ==
    /\ Running /\ crawl.inflight
    /\ detail # "ok" => Cardinality(crawl.failed) < MaxFailures
    /\ crawl' =
        IF detail = "ok"
        THEN ListingEnriched(crawl, crawl.listings[crawl.next],
                             crawl.listings[crawl.next].enrichment)
        ELSE ListingFailed(crawl, crawl.listings[crawl.next])
    /\ UNCHANGED <<jobSearch, emailScoring, parsing, DISABLE_COMPANY_CACHE, clock, companyCache, store, call, ticks, steps,
                   listing, merging, scoring>>

\* the jobs of the page are pushed to the dataset and appended to the export batch,
\* the state is saved and a full batch is exported; a failure of pushData is caught
\* before the jobs reach the batch
BatchPushed(c, pushOk, exportOk) ==
    IF Len(c.jobDetailsArray) = 0 \/ ~pushOk THEN c
    ELSE handleBatchExport(
            [c EXCEPT !.exportBatch = c.exportBatch \o c.jobDetailsArray,
                      !.saved = [processedCount |-> c.processedCount,
                                 attemptedCount |-> c.attemptedCount]],
            exportOk)

\* the site shows 20 jobs per page
jobsPerPage == 20

\* whether the handler queues the next page
ShouldContinue(c) ==
    IF c.variant = "part_002"
    THEN c.cards > 0 /\ c.skipped + c.attemptedCount < TotalJobs
    ELSE c.processedCount < TotalJobs

\* the test mode check before the pagination
LimitReached(c) == c.testMode /\ c.processedCount >= c.testJobLimit

\* the end of the handler: in test mode with the limit reached the state is saved
\* and the handler returns; otherwise the next page is queued, or the state is saved
Paginated(c) ==
    IF ~LimitReached(c) /\ ShouldContinue(c)
    THEN [c EXCEPT !.handling = FALSE, !.continues = TRUE,
                   !.queued = IF c.page < MaxPages THEN c.page + 1 ELSE 0,
                   !.offset = c.page * jobsPerPage]
    ELSE [c EXCEPT !.handling = FALSE, !.continues = FALSE,
                   !.saved = [processedCount |-> c.processedCount,
                              attemptedCount |-> c.attemptedCount]]

\* the requestHandler after its loop over the listings
EndPage(pushOk, exportOk) ==
    /\ Running /\ crawl.handling /\ ~crawl.inflight
    /\ crawl.next > Len(crawl.listings)
    /\ crawl' = Paginated(BatchPushed(crawl, pushOk, exportOk))
    /\ UNCHANGED <<jobSearch, emailScoring, parsing, DISABLE_COMPANY_CACHE, clock, companyCache, store, call, ticks, steps,
                   listing, merging, scoring>>

\* the timer of MAX_RUNTIME_MS rejects the race while the crawler runs
Timeout ==
    /\ crawl.main = "racing"
    /\ crawl' = [crawl EXCEPT !.main = "timed_out", !.timedOut = TRUE]
    /\ UNCHANGED <<jobSearch, emailScoring, parsing, DISABLE_COMPANY_CACHE, clock, companyCache, store, call, ticks, steps,
                   listing, merging, scoring>>

\* crawler.run() resolves: no handler runs and no page is queued
CrawlerDone ==
    /\ crawl.main = "racing" /\ ~crawl.handling /\ crawl.queued = 0
    /\ crawl' = [crawl EXCEPT !.main = "completed"]
    /\ UNCHANGED <<jobSearch, emailScoring, parsing, DISABLE_COMPANY_CACHE, clock, companyCache, store, call, ticks, steps,
                   listing, merging, scoring>>

\* the export of Actor.main after the race and in its finally clause
LastExport(c, exportOk) ==
    IF c.exportData /\ Len(c.exportBatch) > 0 THEN handleBatchExport(c, exportOk) ELSE c

\* whether the final export of Actor.main hands the batch to exportToPostgres
ExportsAtEnd(c) ==
    c.exportData /\ Len(c.exportBatch) > 0 /\ Len(c.exportBatch) >= EXPORT_BATCH_SIZE

\* Actor.main after the race: part_001 saves the cache; the final export begins.
\* exportToPostgres inserts the jobs of the batch in its transaction and awaits
\* the answer to COMMIT
FinalExport(kvOk) ==
    /\ crawl.main \in {"timed_out", "completed"}
    /\ store' = IF crawl.variant = "part_001"
                THEN saveCache(DISABLE_COMPANY_CACHE, companyCache, store, kvOk) ELSE store
    /\ crawl' = IF ExportsAtEnd(crawl)
                THEN [crawl EXCEPT !.main = "final_exporting", !.inserting = crawl.exportBatch]
                ELSE [crawl EXCEPT !.main = "final_exported"]
    /\ UNCHANGED <<jobSearch, emailScoring, parsing, DISABLE_COMPANY_CACHE, clock, companyCache, call, ticks, steps,
                   listing, merging, scoring>>

\* exportToPostgres of the final export returns, or throws after ROLLBACK:
\* handleBatchExport assigns the empty array to exportBatch, or keeps the batch
FinalExported(c, exportOk) ==
    IF exportOk
    THEN [c EXCEPT !.main = "final_exported", !.exported = c.exported \o c.inserting,
                   !.exportBatch = << >>, !.inserting = << >>]
    ELSE [c EXCEPT !.main = "final_exported", !.exportFailed = TRUE, !.inserting = << >>]

\* the final export of Actor.main ends
FinalExportDone(exportOk) ==
    /\ crawl.main = "final_exporting"
    /\ crawl' = FinalExported(crawl, exportOk)
    /\ UNCHANGED store
    /\ UNCHANGED <<jobSearch, emailScoring, parsing, DISABLE_COMPANY_CACHE, clock, companyCache, call, ticks, steps,
                   listing, merging, scoring>>

\* the finally clause of Actor.main (part_002 exports once more), then the process
\* ends and the crawler with it
Exit(exportOk) ==
    /\ crawl.main = "final_exported"
    /\ crawl' = [(IF crawl.variant = "part_002" THEN LastExport(crawl, exportOk) ELSE crawl)
                    EXCEPT !.main = "exited"]
    /\ UNCHANGED <<jobSearch, emailScoring, parsing, DISABLE_COMPANY_CACHE, clock, companyCache, store, call, ticks, steps,
                   listing, merging, scoring>>

CrawlNext ==
    \/ StartPage
    \/ StartListing
    \/ \E detail \in {"ok", "not_ok", "throws"} : FinishListing(detail)
    \/ \E pushOk \in BOOLEAN, exportOk \in BOOLEAN : EndPage(pushOk, exportOk)
    \/ Timeout
    \/ CrawlerDone
    \/ \E kvOk \in BOOLEAN : FinalExport(kvOk)
    \/ \E exportOk \in BOOLEAN : FinalExportDone(exportOk)
    \/ \E exportOk \in BOOLEAN : Exit(exportOk)

CrawlSpec == CrawlInit /\ [][CrawlNext]_vars

\* the crawler's handler goes on while the process lives, and Actor.main goes on
\* after the race
FairCrawlSpec ==
    CrawlSpec /\ WF_vars(StartPage) /\ WF_vars(StartListing)
              /\ WF_vars(\E detail \in {"ok", "not_ok", "throws"} : FinishListing(detail))
              /\ WF_vars(\E pushOk \in BOOLEAN, exportOk \in BOOLEAN : EndPage(pushOk, exportOk))
              /\ WF_vars(CrawlerDone)
              /\ WF_vars(\E kvOk \in BOOLEAN : FinalExport(kvOk))
              /\ WF_vars(\E exportOk \in BOOLEAN : FinalExportDone(exportOk))
              /\ WF_vars(\E exportOk \in BOOLEAN : Exit(exportOk))

(***************************************************************************)
(* The Title Priority Scorer on its own, and the sort of contacts by title *)
(***************************************************************************)
\* two titles, or the titles of a contact list, are given
TitleInit ==
    /\ listing = NoListing
    /\ merging = NoMerging
    /\ emailScoring = NoEmailScoring
    /\ jobSearch = NoJobSearch
    /\ parsing = NoParsing
    /\ crawl = NoCrawl
    /\ DISABLE_COMPANY_CACHE = TRUE
    /\ clock = InitClock
    /\ companyCache = << >>
    /\ store = NullStore
    /\ call = NoCall
    /\ ticks = 0
    /\ steps = 0
    /\ \E titles \in (ScoredTitles \X ScoredTitles) \cup TitleLists :
            scoring = [NoScored EXCEPT !.status = "input", !.titles = titles]

\* the ranks of the titles
RanksOf(titles) == [i \in 1..Len(titles) |-> scoredTitleMemo[titles[i]]]

\* getTitlePriority is applied to the two titles given
ScoreTitles ==
    /\ scoring.status = "input" /\ Len(scoring.titles) = 2
    /\ scoring' = [scoring EXCEPT !.status = "scored", !.ranks = RanksOf(scoring.titles)]
    /\ UNCHANGED <<jobSearch, emailScoring, parsing, crawl, DISABLE_COMPANY_CACHE, clock, companyCache, store, call, ticks,
                   steps, listing, merging>>

\* the contacts with these titles, in this order
ContactsWith(titles) == [i \in 1..Len(titles) |-> [PoolJo EXCEPT !.title = titles[i]]]

\* the titles of the contacts
TitlesOf(contacts) == [i \in 1..Len(contacts) |-> contacts[i].title]

\* contacts.sort((a, b) => getTitlePriority(a.title) - getTitlePriority(b.title))
SortContacts ==
    /\ scoring.status = "input" /\ Len(scoring.titles) = ContactLen
    /\ scoring' = [scoring EXCEPT !.status = "sorted", !.ranks = RanksOf(scoring.titles),
                                !.sorted = TitlesOf(SortByTitle(ContactsWith(scoring.titles)))]
    /\ UNCHANGED <<jobSearch, emailScoring, parsing, crawl, DISABLE_COMPANY_CACHE, clock, companyCache, store, call, ticks,
                   steps, listing, merging>>

TitleNext ==
    \/ ScoreTitles
    \/ SortContacts

TitleSpec == TitleInit /\ [][TitleNext]_vars

(***************************************************************************)
(* The Company Name Parser on its own                                      *)
(***************************************************************************)
\* a raw company text is given to the parser of one of the scripts
ParseInit ==
    /\ listing = NoListing
    /\ merging = NoMerging
    /\ emailScoring = NoEmailScoring
    /\ jobSearch = NoJobSearch
    /\ crawl = NoCrawl
    /\ scoring = NoScored
    /\ DISABLE_COMPANY_CACHE = TRUE
    /\ clock = InitClock
    /\ companyCache = << >>
    /\ store = NullStore
    /\ call = NoCall
    /\ ticks = 0
    /\ steps = 0
    /\ \E raw \in ParseInputs, variant \in {"part_001", "part_002"} :
            parsing = [NoParsing EXCEPT !.status = "input", !.variant = variant, !.raw = raw]

\* the parsing after parseCompanyAndLocation gave name for the text given or, the
\* second time, for the name that it gave before
Parsed(name) ==
    IF parsing.status = "input"
    THEN [parsing EXCEPT !.status = "parsed", !.name = name]
    ELSE [parsing EXCEPT !.status = "reparsed", !.again = name]

\* parseCompanyAndLocation(rawName).name, then parseCompanyAndLocation of that name
Parse ==
    /\ parsing.status \in {"input", "parsed"}
    /\ parsing' =
            Parsed(ParsedName(IF parsing.status = "input" THEN parsing.raw ELSE parsing.name,
                              IF parsing.variant = "part_001"
                              THEN EXCLUDED_COMPANIES ELSE EXCLUDED_COMPANIES002))
    /\ UNCHANGED <<jobSearch, emailScoring, scoring, crawl, DISABLE_COMPANY_CACHE, clock, companyCache,
                   store, call, ticks, steps, listing, merging>>

ParseNext == Parse

ParseSpec == ParseInit /\ [][ParseNext]_vars

(***************************************************************************)
(* searchAllJobs on its own                                                *)
(***************************************************************************)
\* searchAllJobs is called with maxPages, with or without SEARCH_API_KEY
JobSearchInit ==
    /\ listing = NoListing
    /\ merging = NoMerging
    /\ emailScoring = NoEmailScoring
    /\ parsing = NoParsing
    /\ crawl = NoCrawl
    /\ scoring = NoScored
    /\ DISABLE_COMPANY_CACHE = TRUE
    /\ clock = InitClock
    /\ companyCache = << >>
    /\ store = NullStore
    /\ call = NoCall
    /\ ticks = 0
    /\ steps = 0
    /\ \E maxPages \in 0..MaxSearchPages, apiKey \in BOOLEAN :
            jobSearch = [NoJobSearch EXCEPT !.status = "running", !.apiKey = apiKey,
                                            !.maxPages = maxPages]

\* one round of the loop of searchAllJobs: searchJobs with the token of the page
\* before, which the API answers with answer
SearchJobsPage(answer) ==
    /\ jobSearch.status = "running"
    /\ jobSearch' =
            SearchedPage([jobSearch EXCEPT
                              !.requests = IF jobSearch.apiKey THEN @ + 1 ELSE @,
                              !.answer = answer],
                         searchJobs(jobSearch.apiKey, answer))
    /\ UNCHANGED <<emailScoring, parsing, scoring, crawl, DISABLE_COMPANY_CACHE, clock,
                   companyCache, store, call, ticks, steps, listing, merging>>

JobSearchNext == \E answer \in JobsAnswers : SearchJobsPage(answer)

JobSearchSpec == JobSearchInit /\ [][JobSearchNext]_vars

\* fetch settles, so every round of the loop ends
FairJobSearchSpec == JobSearchSpec /\ WF_vars(JobSearchNext)

(***************************************************************************)
(* The Contact Scorer on its own                                           *)
(***************************************************************************)
\* two raw contacts are given
ScoreInit ==
    /\ listing = NoListing
    /\ merging = NoMerging
    /\ parsing = NoParsing
    /\ jobSearch = NoJobSearch
    /\ crawl = NoCrawl
    /\ scoring = NoScored
    /\ DISABLE_COMPANY_CACHE = TRUE
    /\ clock = InitClock
    /\ companyCache = << >>
    /\ store = NullStore
    /\ call = NoCall
    /\ ticks = 0
    /\ steps = 0
    /\ \E emails \in ContactPairs :
            emailScoring = [NoEmailScoring EXCEPT !.status = "input", !.emails = emails]

\* calculateEmailScore for each raw contact, and processEmails for the array
ProcessEmails ==
    /\ emailScoring.status = "input"
    /\ emailScoring' =
            [emailScoring EXCEPT !.status = "scored",
                !.scoresX2 = [i \in 1..Len(emailScoring.emails) |->
                                calculateEmailScoreX2(emailScoring.emails[i])],
                !.processed = processEmails(emailScoring.emails)]
    /\ UNCHANGED <<jobSearch, parsing, scoring, crawl, DISABLE_COMPANY_CACHE, clock, companyCache, store,
                   call, ticks, steps, listing, merging>>

ScoreNext == ProcessEmails

ScoreSpec == ScoreInit /\ [][ScoreNext]_vars


(***************************************************************************)
(* Properties of the orchestrators and of the merge step                   *)
(***************************************************************************)
ListingDone == listing.variant # "none"
NotACompany(parsed) == parsed = "Unknown" \/ StartsWith(parsed, "Excluded")

\* C1: for a listing whose raw company text parses to Unknown or to Excluded (with or
\* without a reason), the enrichment client sends no request for the parsed name and
\* the orchestrator returns a result without contacts.
C1_ExcludedNeverEnriched ==
    (ListingDone /\ NotACompany(listing.parsed)) =>
        /\ \A i \in 1..Len(listing.reqs) : listing.reqs[i].term # listing.parsed
        /\ listing.contacts = << >>

Merged == merging.status = "merged"
\* all contacts of the strategy results given to the merge step
InputContacts == Flatten(merging.input)

\* C2: the contact list that the merge step gives has no two entries whose addresses
\* are equal after lower-casing.
C2_NoDuplicateEmails ==
    Merged =>
        \A i, j \in 1..Len(merging.contacts) :
            i # j => ToLowerCase(merging.contacts[i].email)
                        # ToLowerCase(merging.contacts[j].email)

\* the strategies found one address twice, in different case, and the merge kept one
C2_Witness ==
    /\ Merged
    /\ \E i, j \in 1..Len(InputContacts) :
            /\ InputContacts[i].email # InputContacts[j].email
            /\ ToLowerCase(InputContacts[i].email) = ToLowerCase(InputContacts[j].email)
    /\ Len(merging.contacts) = 1

\* C3: the contact list that the orchestrator returns is sorted by the rank of the
\* titles, ascending: no contact has a higher rank than its successor.
C3_SortedByTitleRank ==
    Merged =>
        \A i \in 1..(Len(merging.contacts) - 1) :
            getTitlePriority(merging.contacts[i].title)
                <= getTitlePriority(merging.contacts[i + 1].title)

\* the strategies gave the contacts in descending rank and the merge reversed them
C3_Witness ==
    /\ Merged
    /\ Len(InputContacts) = 2 /\ Len(merging.contacts) = 2
    /\ getTitlePriority(InputContacts[1].title) > getTitlePriority(InputContacts[2].title)
    /\ merging.contacts[1].email = InputContacts[2].email
    /\ merging.contacts[2].email = InputContacts[1].email

(***************************************************************************)
(* Properties of the Enrichment Client and the Cache Layer                 *)
(***************************************************************************)
Returned == call.status = "returned"
LastLevel == call.levels[Len(call.levels)]
RequestFailedAt(i) == i <= Len(call.levels) /\ call.levels[i].outcome = "error"

C5_NoRequestAfter429 ==
    \A i \in 1..Len(call.levels) :
        (call.levels[i].outcome = "error" /\ call.levels[i].http = 429) =>
            /\ 10000 \in Range(call.waits)
            /\ Len(call.reqs) <= i
            /\ Returned => call.ret.emails = << >>

\* the requests and nested calls of one top-level lookup
C6_Requests ==
    /\ Len(call.reqs) <= 2 /\ Len(call.levels) <= 2
    /\ Len(call.reqs) = 2 =>
            /\ call.source = "company"
            /\ RequestFailedAt(1)
            /\ call.reqs[2].source = "location"
    /\ Len(call.levels) = 2 => Returned /\ RequestFailedAt(1) /\ call.levels[2].source = "location"
    /\ call.source # "company" => Len(call.reqs) <= 1 /\ Len(call.levels) <= 1

\* C6: a top-level lookup sends at most two external requests, the second only in
\* company mode after the first failed; a failed retry is not retried, a lookup in
\* another mode is never retried, and every lookup returns.
C6_AtMostOneRetry == [](C6_Requests) /\ (call.status = "awaiting" ~> Returned)

\* a company lookup has sent its second request after the first failed
C6_Witness ==
    /\ Returned /\ Len(call.reqs) = 2
    /\ RequestFailedAt(1)
    /\ call.levels[2].outcome \in {"fetched", "error"}

\* C7: with the cache enabled, a lookup that fetched at least one contact leaves, at
\* its return, an entry under its key that holds the returned contacts.
C7_SuccessIsCached ==
    (Returned /\ ~DISABLE_COMPANY_CACHE /\ LastLevel.outcome = "fetched"
        /\ Len(call.ret.emails) > 0) =>
            /\ MapHas(companyCache, CacheKey(call.cur.companyName, call.cur.source))
            /\ MapGet(companyCache, CacheKey(call.cur.companyName, call.cur.source)).emails
                    = call.ret.emails

NoEmptyEntry(entries) ==
    \A i \in 1..Len(entries) :
        entries[i].value.emailsIsArray /\ Len(entries[i].value.emails) > 0

\* C9: no entry of the in-memory cache and no entry of a snapshot that saveCache wrote
\* has an empty email list.
C9_NoEmptyEntries ==
    /\ NoEmptyEntry(companyCache)
    /\ store.origin = "saved" => NoEmptyEntry(store.entries)

\* a lookup fetched a result without contacts while the cache and the written
\* snapshot hold entries
C9_Witness ==
    /\ Returned /\ LastLevel.outcome = "fetched" /\ call.ret.emails = << >>
    /\ Len(companyCache) > 0
    /\ store.origin = "saved" /\ Len(store.entries) > 0

\* key.split(':') of a cache key: the source tag
SourcePart(key) == SubSeq(key, IndexOf(key, ":") + 1, Len(key))

Malformed(value) ==
    \/ ~value.isObject \/ ~value.hasTimestamp
    \/ ~value.emailsIsArray
    \/ Len(value.emails) = 0
    \/ \E i \in 1..Len(value.emails) : value.emails[i].email = ""

\* the snapshot without its malformed entries
WellFormedOnly(st) ==
    [st EXCEPT !.entries = SelectSeq(st.entries, LAMBDA e : ~Malformed(e.value))]

\* C11: every loadCache completes (a failure of the store is caught); after it no
\* value of the cache is malformed, and the cache is the one that loading the same
\* snapshot without its malformed entries gives, so no malformed entry keeps a
\* valid entry from being loaded.
C11_MalformedDropped ==
    [][\A kvOk \in BOOLEAN :
        LoadCache(kvOk) =>
            /\ \A i \in 1..Len(companyCache') : ~Malformed(companyCache'[i].value)
            /\ companyCache' = loadCache(DISABLE_COMPANY_CACHE, companyCache,
                                    WellFormedOnly(store), kvOk, clock)]_vars

\* a snapshot with malformed entries was loaded, and the valid entries that follow
\* malformed entries of the same company are in the cache
C11_Witness ==
    /\ store.entries = SnapMalformedFirst
    /\ \E i \in 1..Len(store.entries) : Malformed(store.entries[i].value)
    /\ MapHas(companyCache, "blue hill:parent_company")
    /\ MapHas(companyCache, "cafe:potential_company_1")
    /\ ~MapHas(companyCache, "cafe:location")

(***************************************************************************)
(* Properties of the strategies of part_002                                *)
(***************************************************************************)
\* the names of the strategies that getCompanyInfo of part_002 defines for the listing
StrategyNames ==
    LET parent == IF listing.parentCompanyName # ""
                  THEN ParsedName002Of(listing.parentCompanyName) ELSE ""
    IN (IF listing.parsed # "" /\ ~StartsWith(listing.parsed, "Excluded")
        THEN <<listing.parsed>> ELSE << >>)
       \o (IF parent # "" /\ parent # listing.parsed /\ ~StartsWith(parent, "Excluded")
           THEN <<parent>> ELSE << >>)

C12_NoParentLookupByName ==
    \A i \in 1..Len(crawl.lastReqs) : crawl.lastReqs[i].source # "parent_company"

\* a name that is Unknown or Excluded, or that the parser of part_002 classifies so
UnknownOrExcluded(name) ==
    \/ NotACompany(name)
    \/ name \in ParentCompanies /\ NotACompany(ParsedName002Of(name))

\* C13: the website search is never called with a company name that is Unknown or
\* Excluded, neither by the orchestrator nor by the crawl loop, neither for the
\* company of the listing nor for its parent company.
C13_NoSearchForUnknownOrExcluded ==
    \A i \in 1..Len(crawl.lastSearches) : ~UnknownOrExcluded(crawl.lastSearches[i])

\* C16: once the run budget of MAX_RUNTIME_MS is exceeded no new listing starts; a
\* listing in progress at that moment may finish.
C16_NoListingStartsAfterBudget == ~crawl.startedLate

\* C17: when the run has ended with the export switched on and no export failed,
\* every job appended to the export batch was handed to exportToPostgres, the jobs of
\* a last batch of fewer than EXPORT_BATCH_SIZE jobs included.  Stated for the runs
\* that the crawler completes within the run budget.
C17_BatchExportedAtExit ==
    (crawl.main = "exited" /\ ~crawl.timedOut /\ crawl.exportData /\ ~crawl.exportFailed) =>
        crawl.exportBatch = << >>

\* the counters of the run: a listing is processed or failed, not both; the processed
\* count holds no failed listing; part_002 counts every listing taken as attempted;
\* a crawler that has completed has taken every listing of every page
C18_Counts ==
    /\ crawl.failed \cap crawl.processed = {}
    /\ crawl.processedCount <= Cardinality(crawl.processed)
    /\ crawl.variant = "part_002" =>
          /\ crawl.processedCount = Cardinality(crawl.processed)
          /\ crawl.attemptedCount =
                Cardinality(crawl.processed) + Cardinality(crawl.failed)
                    + (IF crawl.inflight THEN 1 ELSE 0)
    /\ crawl.main = "completed" =>
          Cardinality(crawl.processed \cup crawl.failed) + crawl.skipped = TotalJobs

\* a step in which a listing fails leaves the run, the handler and its loop going,
\* adds no job and leaves the processed count as it is
C18_FailureStep ==
    crawl'.failed # crawl.failed =>
        /\ crawl'.main = crawl.main
        /\ crawl'.handling
        /\ crawl'.next = crawl.next + 1
        /\ crawl'.jobDetailsArray = crawl.jobDetailsArray
        /\ crawl'.processedCount = crawl.processedCount
        /\ crawl'.attemptedCount = crawl.attemptedCount

\* C18: the failure of a listing (detail fetch, parsing, enrichment) does not abort
\* the run: the other listings of the page and the pages after it are processed, and
\* the failed listing is not counted as processed; part_002 counts it as attempted
\* (part_001 keeps no count of the attempted listings).
C18_FailureContained == [](C18_Counts) /\ [][C18_FailureStep]_vars

\* a listing of the first page failed, and listings after it on the same page and on
\* the second page were processed
C18_Witness ==
    /\ crawl.variant = "part_002"
    /\ "job01" \in crawl.failed
    /\ "job02" \in crawl.processed /\ "job13" \in crawl.processed
    /\ crawl.attemptedCount > crawl.processedCount

\* C18 as stated: in both scripts every failed listing is counted as attempted.
C18_FailedCountedAsAttempted ==
    crawl.attemptedCount >= Cardinality(crawl.failed)

\* the exclusion checks applied to the name as it is given: lower-cased and with its
\* whitespace removed it contains an entry of EXCLUDED_COMPANIES or of
\* PARTIAL_EXCLUSIONS
containsExclusionMemo ==
    [n \in MemoNames |-> IsExactExcluded(LowerOf(n)) \/ IsPartialExcluded(LowerOf(n))] @@ << >>
ContainsExclusion(name) == name \in MemoNames /\ containsExclusionMemo[name]

\* C14: a lookup of a name that, lower-cased and with its whitespace removed, contains
\* an entry of the exact or of the partial exclusion list sends no request.
C14_ExcludedNeverRequested ==
    \A i \in 1..Len(call.reqs) : ~ContainsExclusion(call.reqs[i].term)

(***************************************************************************)
(* Properties of the Title Priority Scorer                                 *)
(***************************************************************************)
\* the title matches the entry at index i (from 1) of TITLE_PRIORITY exactly, without
\* regard to case
ExactMatch(title, i) == lowerTitleMemo[title] = TITLE_PRIORITY[i]

\* C19: of two titles that match two distinct entries of TITLE_PRIORITY exactly,
\* without regard to case, the title that matches the earlier entry has the strictly
\* lower rank.
C19_ExactMatchesMonotonic ==
    scoring.status = "scored" =>
        \A i \in 1..Len(TITLE_PRIORITY), j \in 1..Len(TITLE_PRIORITY) :
            (i < j /\ ExactMatch(scoring.titles[1], i) /\ ExactMatch(scoring.titles[2], j)) =>
                scoring.ranks[1] < scoring.ranks[2]

\* C20: the contacts HR Manager, Line Cook, CEO are sorted to HR Manager, CEO, Line
\* Cook, and Line Cook, which matches no entry, has the rank of an unmatched title,
\* Len(TITLE_PRIORITY) + 1.
C20_LineCookUnmatched ==
    (scoring.status = "sorted" /\ scoring.titles = <<"HR Manager", "Line Cook", "CEO">>) =>
        /\ scoring.sorted = <<"HR Manager", "CEO", "Line Cook">>
        /\ scoring.ranks[2] = Len(TITLE_PRIORITY) + 1

(***************************************************************************)
(* Properties of the Contact Scorer                                        *)
(***************************************************************************)
\* the address and the title of a raw contact as processEmails reads them
AddressOf(email) == IF email.value # "" THEN email.value ELSE email.email
TitleOf(email) == IF email.position # "" THEN email.position ELSE email.position_raw
HasTitle(email) == Trim(TitleOf(email)) # ""

\* C21: a raw contact with an address and a title has the rank of its title as its
\* score, whatever its address, name, confidence and type are, and this score is
\* strictly lower than the score of every contact with an address and without a
\* title; a contact without an address has the score 1000.
C21_TitleDominates ==
    emailScoring.status = "scored" =>
        \A i \in 1..Len(emailScoring.emails) :
            LET e == emailScoring.emails[i]
            IN /\ AddressOf(e) = "" => emailScoring.scoresX2[i] = 2 * 1000
               /\ (AddressOf(e) # "" /\ HasTitle(e)) =>
                    /\ emailScoring.scoresX2[i] = 2 * scoredTitleMemo[TitleOf(e)]
                    /\ \A j \in 1..Len(emailScoring.emails) :
                          (AddressOf(emailScoring.emails[j]) # ""
                                /\ ~HasTitle(emailScoring.emails[j])) =>
                              emailScoring.scoresX2[i] < emailScoring.scoresX2[j]

(***************************************************************************)
(* Properties of the Company Name Parser                                   *)
(***************************************************************************)
\* the parser resolved a company: the name is neither Unknown nor Excluded
Resolved(name) == ~NotACompany(name)

\* C22: for every raw company text that is exactly one of the place names of
\* commonLocations, the parser returns Unknown.
C22_PlaceNameIsUnknown ==
    (parsing.status \in {"parsed", "reparsed"} /\ parsing.raw \in PlaceNames) =>
        parsing.name = "Unknown"

\* C23: for every raw company text that is one leading word or more followed by a
\* whole-name form, the parser resolves the company and its name is the full text
\* given, the form included, with nothing removed from its end or from its start;
\* MARCUS SAMUELSSON RESTAURANT GROUP is resolved to Marcus Samuelsson Restaurant
\* Group.
C23_WholeNamePreserved ==
    (parsing.status \in {"parsed", "reparsed"} /\ parsing.raw \in WholeNames) =>
        /\ Resolved(parsing.name)
        /\ ToLowerCase(parsing.name) = ToLowerCase(parsing.raw)
        /\ parsing.raw = "MARCUS SAMUELSSON RESTAURANT GROUP" =>
                parsing.name = "Marcus Samuelsson Restaurant Group"

\* C24: the parser is idempotent on the names that it resolves: when the name parsed
\* from a raw text is resolved, the name parsed from that name is resolved and is
\* the same name.
C24_ParseIdempotent ==
    (parsing.status = "reparsed" /\ Resolved(parsing.name)) =>
        /\ Resolved(parsing.again)
        /\ parsing.again = parsing.name

(***************************************************************************)
(* Properties of the test mode and of the pagination                       *)
(***************************************************************************)
\* in test mode processedCount is at most the test job limit
C25_WithinLimit == crawl.testMode => crawl.processedCount <= crawl.testJobLimit

\* once the limit is reached, no listing is taken or processed and no page is queued
C25_LimitStep ==
    LimitReached(crawl) =>
        /\ crawl'.processedCount = crawl.processedCount
        /\ crawl'.attemptedCount = crawl.attemptedCount
        /\ crawl'.processed = crawl.processed
        /\ ~crawl'.inflight
        /\ crawl'.queued = 0

\* C25: in test mode processedCount never exceeds the test job limit, and once the
\* limit is reached no further listing is processed and no further page is queued.
C25_TestLimitRespected == [](C25_WithinLimit) /\ [][C25_LimitStep]_vars

\* the limit of three jobs is reached on the first page, which has more cards than
\* three, and the crawler ends without a second page
C25_Witness ==
    /\ crawl.testMode /\ crawl.testJobLimit = 3 /\ crawl.processedCount = 3
    /\ crawl.cards > 3 /\ crawl.page = 1 /\ crawl.main = "completed"

(***************************************************************************)
(* Properties of the Google Jobs search                                    *)
(***************************************************************************)
\* the answer is an error of the API or of the network
FailedAnswer(answer) ==
    answer.fetch = "throws" \/ answer.body # "json" \/ ~answer.ok

\* C26: searchAllJobs fetches at most maxPages pages, whatever maxPages is, and goes
\* on after a page only if the page had jobs and a token for the next page;
\* searchJobs never throws, and it returns no jobs and hasMore false when the API key
\* is missing, when the response is not OK and when an error occurs.
C26_AtMostMaxPages ==
    /\ jobSearch.currentPage <= jobSearch.maxPages
    /\ jobSearch.status # "threw"
    /\ (jobSearch.status = "running" /\ jobSearch.currentPage > 0) =>
            jobSearch.last.jobs > 0 /\ jobSearch.last.nextPageToken # ""
    /\ (jobSearch.currentPage > 0 /\ (~jobSearch.apiKey \/ FailedAnswer(jobSearch.answer))) =>
            jobSearch.last = NoJobs

(***************************************************************************)
(* Properties of the primary strategy of part_002                          *)
(***************************************************************************)
\* the calls of the primary strategy for the listing, in order
PrimaryCalls == SelectSeq(listing.calls, LAMBDA c : c.task = "primary")

\* the website search of the primary strategy found a domain
DomainFound ==
    /\ ~listing.answers[1].threw
    /\ listing.answers[1].url # ""
    /\ DomainOf(listing.answers[1].url) # ""

MergedResults ==
    IF merging.variant = "part_001"
    THEN [i \in 1..Len(merging.input) |->
            [ source |-> Results001(merging.input)[i].source, emails |-> merging.input[i] ]]
    ELSE [i \in 1..Len(merging.input) |->
            [ source |-> Results002(merging.input)[i].source, emails |-> merging.input[i] ]]

\* result r holds a contact with the address of contact c, up to case
HoldsAddress(r, c) ==
    \E k \in 1..Len(r.emails) : ToLowerCase(r.emails[k].email) = ToLowerCase(c.email)

\* result r holds contact c itself
HoldsContact(r, c) ==
    \E k \in 1..Len(r.emails) :
        /\ r.emails[k].email = c.email
        /\ r.emails[k].name = c.name
        /\ r.emails[k].title = c.title

\* a domain-based strategy
DomainBased(r) == Includes(r.source, "_domain")

\* result a comes before result b in the priority order of the merge: domain-based
\* strategies before name-based ones, then the strategy with more contacts
HasPriority(a, b) ==
    \/ DomainBased(a) /\ ~DomainBased(b)
    \/ DomainBased(a) = DomainBased(b) /\ Len(a.emails) > Len(b.emails)

\* C28: every contact of the merged result comes from a strategy that holds it and
\* whose source tag it carries, and no other strategy that holds its address, up to
\* case, comes before that strategy in the priority order of the merge.
C28_FirstStrategyWins ==
    Merged =>
        \A i \in 1..Len(merging.contacts) :
            \E s \in 1..Len(MergedResults) :
                /\ merging.contacts[i].source = MergedResults[s].source
                /\ HoldsContact(MergedResults[s], merging.contacts[i])
                /\ \A t \in 1..Len(MergedResults) :
                        HoldsAddress(MergedResults[t], merging.contacts[i]) =>
                            ~HasPriority(MergedResults[t], MergedResults[s])

\* the by-name strategy and the by-domain strategy of part_002 gave the same address
\* in different case, the by-name strategy gave more contacts, and the contact kept
\* is that of the by-domain strategy
C28_Witness ==
    /\ Merged /\ merging.variant = "part_002"
    /\ merging.input = << <<PoolJoUpper, PoolAl>>, <<PoolJo>> >>
    /\ \E i \in 1..Len(merging.contacts) :
            /\ merging.contacts[i].email = "jo@acme.com"
            /\ merging.contacts[i].source = "parent_google_domain"

(***************************************************************************)
(* Properties of the batch export                                          *)
(***************************************************************************)
\* the URLs of the jobs of a batch
UrlsOf(jobs) == {jobs[i].url : i \in 1..Len(jobs)}

\* a step removes a job from the export batch only if the job is committed after it
C29_NoJobLost ==
    \A url \in UrlsOf(crawl.exportBatch) \ UrlsOf(crawl'.exportBatch) :
        url \in UrlsOf(crawl'.exported)

\* no job is committed twice
C29_NoJobTwice ==
    \A i, j \in 1..Len(crawl.exported) :
        crawl.exported[i].url = crawl.exported[j].url => i = j

\* C29: the batch export neither loses a job nor exports one twice: a failed export
\* leaves the batch as it is, a successful export commits the jobs of the batch and
\* empties it, and no job leaves the batch without being committed.
C29_ExportKeepsJobs == [](C29_NoJobTwice) /\ [][C29_NoJobLost]_vars

(***************************************************************************)
(* Properties of the pagination                                            *)
(***************************************************************************)
\* skipped duplicates + skipped excluded + attempted
AccountedJobs == crawl.skipped + crawl.attemptedCount

\* C30: after the handler of a page, the next page is queued only if the page had a
\* job card and the accounted jobs are below the target; the page queued is the
\* next page, at the offset of 20 jobs per page handled; after a page without job
\* cards and once the target is reached no page is queued.
C30_PaginationStops ==
    (crawl.page > 0 /\ ~crawl.handling) =>
        /\ crawl.continues => crawl.cards > 0 /\ AccountedJobs < TotalJobs
        /\ crawl.queued # 0 =>
                /\ crawl.continues
                /\ crawl.queued = crawl.page + 1
                /\ crawl.offset = 20 * crawl.page

====
